---- MODULE Spec2Model ----
(***************************************************************************)
(* A model of the worksheet write path of rust_xlsxwriter                  *)
(* (src/src/worksheet.rs): the sparse cell store and its dimension         *)
(* tracking, the local format table, merged ranges, hyperlinks, the        *)
(* formula preprocessor and the autofilter conditions.                     *)
(*                                                                         *)
(* Rust methods that mutate `self` and return a Result are written as      *)
(* operators from a worksheet record `w` to a pair [ws, res]; an action    *)
(* applies one public method to the current worksheet and records the      *)
(* call and its result in `last`.                                          *)
(***************************************************************************)
EXTENDS Integers, Sequences, FiniteSets, TLC

\* ------------------------------------------------------------------------
\* Program constants.
\* ------------------------------------------------------------------------
COL_MAX == 16384
ROW_MAX == 1048576
MAX_URL_LEN == 2080
MAX_STRING_LEN == 32767
MAX_PARAMETER_LEN == 255

\* ------------------------------------------------------------------------
\* Bounds of the model.
\* ------------------------------------------------------------------------
\* Number of public method calls made on one worksheet.
MaxOps == 3
\* Number of tokens of a caller's formula string.
MaxFormulaLen == 3

VARIABLES
    table,                 \* (row, col) -> CellType, the cells written
    dimensions,            \* CellRange of the range-checked positions
    changed_rows,          \* row -> RowOptions
    changed_cols,          \* col -> ColOptions
    xf_formats,            \* Vec<Format>: the local formats, by index
    xf_indices,            \* format key -> local xf index
    global_xf_indices,     \* local xf index -> workbook xf index
    default_result,        \* cached result given to new formulas
    use_future_functions,
    has_dynamic_arrays,
    uses_string_table,
    has_hyperlink_style,
    merged_ranges,         \* Vec<CellRange> of the accepted merges
    merged_cells,          \* (row, col) -> index into merged_ranges
    hyperlinks,            \* (row, col) -> Hyperlink
    autofilter_defined_name,
    autofilter_area,       \* the autofilter range as a cell range
    filter_conditions,     \* col -> FilterCondition
    horizontal_breaks,     \* Vec<u32>, set_page_breaks
    vertical_breaks,       \* Vec<u32>, set_vertical_page_breaks
    active,                \* set_active
    selected,              \* set_selected
    hidden,                \* set_hidden
    first_sheet,           \* set_first_tab
    images,                \* (row, col) -> Image
    drawings,              \* drawing.drawings: Vec<DrawingInfo>
    drawing_relationships, \* Vec of the links of the drawing rels file
    drawing_object_relationships,  \* Vec of the drawing links to the rels file
    hyperlink_relationships,       \* Vec of the links to the rels file
    rel_count,             \* relationship ids used by the sheet XML
    has_drawing_object_linkage,    \* set by prepare_worksheet_images
    filter_automatic_off,  \* filter_automatic_off() was called
    last,                  \* the last call: its name, arguments and result
    nops,                  \* number of calls made so far
    formula_arg,           \* input of the formula preprocessor
    expand_arg,            \* its expand_future_functions flag
    prepared,              \* the successive results of prepare_formula
    writing,               \* the element assemble_xml_file is writing
    loop_ref_id,           \* ref_id of the loop of write_hyperlinks
    r_ids                  \* the r:id attributes written, in their order

wsvars == <<table, dimensions, changed_rows, changed_cols, xf_formats, xf_indices,
            global_xf_indices, default_result, use_future_functions,
            has_dynamic_arrays, uses_string_table, has_hyperlink_style,
            merged_ranges, merged_cells, hyperlinks, autofilter_defined_name,
            autofilter_area, filter_conditions, horizontal_breaks, vertical_breaks,
            active, selected, hidden, first_sheet,
            images, drawings,
            drawing_relationships, drawing_object_relationships,
            hyperlink_relationships, rel_count, has_drawing_object_linkage,
            filter_automatic_off>>

fvars == <<formula_arg, expand_arg, prepared>>

\* The writing of the sheet XML, followed reference by reference.
xvars == <<writing, loop_ref_id, r_ids>>

vars == <<wsvars, last, nops, fvars, xvars>>

\* ------------------------------------------------------------------------
\* Values.
\* ------------------------------------------------------------------------
Min(a, b) == IF a < b THEN a ELSE b
Max(a, b) == IF a > b THEN a ELSE b

\* Option<T>.
None == [some |-> FALSE]
Some(x) == [some |-> TRUE, val |-> x]

\* A &str is its text (a tuple of names) and its number of characters.
Str(text, chars) == [text |-> text, chars |-> chars]
EmptyStr == Str(<<>>, 0)
NumError == Str(<<"#NUM!">>, 5)
DivError == Str(<<"#DIV/0">>, 6)

\* An f64 is finite, NaN or an infinity.
Finite(n) == [kind |-> "finite", val |-> n]
NaN == [kind |-> "nan", val |-> 0]
PosInf == [kind |-> "inf", val |-> 1]
NegInf == [kind |-> "inf", val |-> -1]
is_nan(number) == number.kind = "nan"
is_infinite(number) == number.kind = "inf"

\* A Format is known to the worksheet by its format key.
Fmt(key, hyperlink) == [key |-> key, is_hyperlink |-> hyperlink]
DefaultFormat == Fmt("default", FALSE)
HyperlinkFormat == Fmt("hyperlink", TRUE)

\* Row heights are in points; column widths in 1/100 of a character.
DEFAULT_ROW_HEIGHT == 15
DEFAULT_COL_WIDTH == 843

\* The worksheet as one record, and its fields written back.
WS == [table |-> table, dimensions |-> dimensions, changed_rows |-> changed_rows,
       changed_cols |-> changed_cols, xf_formats |-> xf_formats,
       xf_indices |-> xf_indices, global_xf_indices |-> global_xf_indices,
       default_result |-> default_result,
       use_future_functions |-> use_future_functions,
       has_dynamic_arrays |-> has_dynamic_arrays,
       uses_string_table |-> uses_string_table,
       has_hyperlink_style |-> has_hyperlink_style,
       merged_ranges |-> merged_ranges, merged_cells |-> merged_cells,
       hyperlinks |-> hyperlinks,
       autofilter_defined_name |-> autofilter_defined_name,
       autofilter_area |-> autofilter_area,
       filter_conditions |-> filter_conditions,
       horizontal_breaks |-> horizontal_breaks,
       vertical_breaks |-> vertical_breaks,
       active |-> active,
       selected |-> selected,
       hidden |-> hidden,
       first_sheet |-> first_sheet,
       images |-> images,
       drawings |-> drawings,
       drawing_relationships |-> drawing_relationships,
       drawing_object_relationships |-> drawing_object_relationships,
       hyperlink_relationships |-> hyperlink_relationships,
       rel_count |-> rel_count,
       has_drawing_object_linkage |-> has_drawing_object_linkage,
       filter_automatic_off |-> filter_automatic_off]

Commit(w) ==
    /\ table' = w.table
    /\ dimensions' = w.dimensions
    /\ changed_rows' = w.changed_rows
    /\ changed_cols' = w.changed_cols
    /\ xf_formats' = w.xf_formats
    /\ xf_indices' = w.xf_indices
    /\ global_xf_indices' = w.global_xf_indices
    /\ default_result' = w.default_result
    /\ use_future_functions' = w.use_future_functions
    /\ has_dynamic_arrays' = w.has_dynamic_arrays
    /\ uses_string_table' = w.uses_string_table
    /\ has_hyperlink_style' = w.has_hyperlink_style
    /\ merged_ranges' = w.merged_ranges
    /\ merged_cells' = w.merged_cells
    /\ hyperlinks' = w.hyperlinks
    /\ autofilter_defined_name' = w.autofilter_defined_name
    /\ autofilter_area' = w.autofilter_area
    /\ filter_conditions' = w.filter_conditions
    /\ horizontal_breaks' = w.horizontal_breaks
    /\ vertical_breaks' = w.vertical_breaks
    /\ active' = w.active
    /\ selected' = w.selected
    /\ hidden' = w.hidden
    /\ first_sheet' = w.first_sheet
    /\ images' = w.images
    /\ drawings' = w.drawings
    /\ drawing_relationships' = w.drawing_relationships
    /\ drawing_object_relationships' = w.drawing_object_relationships
    /\ hyperlink_relationships' = w.hyperlink_relationships
    /\ rel_count' = w.rel_count
    /\ has_drawing_object_linkage' = w.has_drawing_object_linkage
    /\ filter_automatic_off' = w.filter_automatic_off

\* A method's outcome: the worksheet it leaves and the Result it returns.
Ret(w, res) == [ws |-> w, res |-> res]

\* HashMap::insert.
MapInsert(map, key, value) ==
    [k \in DOMAIN map \cup {key} |-> IF k = key THEN value ELSE map[k]]

\* ------------------------------------------------------------------------
\* Worksheet::new.
\* ------------------------------------------------------------------------
InitDimensions ==
    [first_row |-> ROW_MAX, first_col |-> COL_MAX, last_row |-> 0, last_col |-> 0]

InitDefinedName ==
    [in_use |-> FALSE, first_row |-> 0, first_col |-> 0, last_row |-> 0, last_col |-> 0]

NoCall == [op |-> "new", res |-> "Ok"]

\* The worksheet Worksheet::new returns.
NewWorksheet ==
    [table |-> <<>>,
     dimensions |-> InitDimensions,
     changed_rows |-> <<>>,
     changed_cols |-> <<>>,
     xf_formats |-> <<DefaultFormat>>,
     xf_indices |-> [k \in {DefaultFormat.key} |-> 0],
     global_xf_indices |-> <<>>,
     default_result |-> "0",
     use_future_functions |-> FALSE,
     has_dynamic_arrays |-> FALSE,
     uses_string_table |-> FALSE,
     has_hyperlink_style |-> FALSE,
     merged_ranges |-> <<>>,
     merged_cells |-> <<>>,
     hyperlinks |-> <<>>,
     autofilter_defined_name |-> InitDefinedName,
     autofilter_area |-> <<>>,
     filter_conditions |-> <<>>,
     horizontal_breaks |-> <<>>,
     vertical_breaks |-> <<>>,
     active |-> FALSE,
     selected |-> FALSE,
     hidden |-> FALSE,
     first_sheet |-> FALSE,
     images |-> <<>>,
     drawings |-> <<>>,
     drawing_relationships |-> <<>>,
     drawing_object_relationships |-> <<>>,
     hyperlink_relationships |-> <<>>,
     rel_count |-> 0,
     has_drawing_object_linkage |-> FALSE,
     filter_automatic_off |-> FALSE]

\* A new worksheet on which no method has been called; the formula
\* preprocessor is not run on its own.
Init ==
    /\ table = NewWorksheet.table
    /\ dimensions = NewWorksheet.dimensions
    /\ changed_rows = NewWorksheet.changed_rows
    /\ changed_cols = NewWorksheet.changed_cols
    /\ xf_formats = NewWorksheet.xf_formats
    /\ xf_indices = NewWorksheet.xf_indices
    /\ global_xf_indices = NewWorksheet.global_xf_indices
    /\ default_result = NewWorksheet.default_result
    /\ use_future_functions = NewWorksheet.use_future_functions
    /\ has_dynamic_arrays = NewWorksheet.has_dynamic_arrays
    /\ uses_string_table = NewWorksheet.uses_string_table
    /\ has_hyperlink_style = NewWorksheet.has_hyperlink_style
    /\ merged_ranges = NewWorksheet.merged_ranges
    /\ merged_cells = NewWorksheet.merged_cells
    /\ hyperlinks = NewWorksheet.hyperlinks
    /\ autofilter_defined_name = NewWorksheet.autofilter_defined_name
    /\ autofilter_area = NewWorksheet.autofilter_area
    /\ filter_conditions = NewWorksheet.filter_conditions
    /\ horizontal_breaks = NewWorksheet.horizontal_breaks
    /\ vertical_breaks = NewWorksheet.vertical_breaks
    /\ active = NewWorksheet.active
    /\ selected = NewWorksheet.selected
    /\ hidden = NewWorksheet.hidden
    /\ first_sheet = NewWorksheet.first_sheet
    /\ images = NewWorksheet.images
    /\ drawings = NewWorksheet.drawings
    /\ drawing_relationships = NewWorksheet.drawing_relationships
    /\ drawing_object_relationships = NewWorksheet.drawing_object_relationships
    /\ hyperlink_relationships = NewWorksheet.hyperlink_relationships
    /\ rel_count = NewWorksheet.rel_count
    /\ has_drawing_object_linkage = NewWorksheet.has_drawing_object_linkage
    /\ filter_automatic_off = NewWorksheet.filter_automatic_off
    /\ last = NoCall
    /\ nops = 0
    /\ formula_arg = <<>>
    /\ expand_arg = FALSE
    /\ prepared = <<>>
    /\ writing = "worksheet"
    /\ loop_ref_id = 1
    /\ r_ids = <<>>

\* ------------------------------------------------------------------------
\* The cell store.
\* ------------------------------------------------------------------------
\* check_dimensions with the update of last_col left out.
check_dimensions_no_last_col(w, row, col) ==
    IF row >= ROW_MAX \/ col >= COL_MAX
    THEN [ws |-> w, ok |-> FALSE]
    ELSE [ws |-> [w EXCEPT !.dimensions =
                     [first_row |-> Min(w.dimensions.first_row, row),
                      first_col |-> Min(w.dimensions.first_col, col),
                      last_row |-> Max(w.dimensions.last_row, row),
                      last_col |-> w.dimensions.last_col]],
          ok |-> TRUE]

check_dimensions(w, row, col) ==
    IF row >= ROW_MAX \/ col >= COL_MAX
    THEN [ws |-> w, ok |-> FALSE]
    ELSE [ws |-> [w EXCEPT !.dimensions =
                     [first_row |-> Min(w.dimensions.first_row, row),
                      first_col |-> Min(w.dimensions.first_col, col),
                      last_row |-> Max(w.dimensions.last_row, row),
                      last_col |-> Max(w.dimensions.last_col, col)]],
          ok |-> TRUE]

check_dimensions_only(row, col) == ~(row >= ROW_MAX \/ col >= COL_MAX)

\* A format index that gives every use of a format a new index.
format_index_always_appends(w, format) ==
    [ws |-> [w EXCEPT !.xf_formats = Append(w.xf_formats, format),
                      !.xf_indices = MapInsert(w.xf_indices, format.key, Len(w.xf_formats)),
                      !.has_hyperlink_style = w.has_hyperlink_style \/ format.is_hyperlink],
     xf_index |-> Len(w.xf_formats)]

\* The local index of a format: that of its key, or the next free one.
format_index(w, format) ==
    IF format.key \in DOMAIN w.xf_indices
    THEN [ws |-> w, xf_index |-> w.xf_indices[format.key]]
    ELSE [ws |-> [w EXCEPT !.xf_formats = Append(w.xf_formats, format),
                           !.xf_indices = MapInsert(w.xf_indices, format.key,
                                                    Len(w.xf_formats)),
                           !.has_hyperlink_style =
                               w.has_hyperlink_style \/ format.is_hyperlink],
          xf_index |-> Len(w.xf_formats)]

\* `match format { Some(format) => self.format_index(format), None => 0 }`.
format_index_opt(w, format) ==
    IF format.some THEN format_index(w, format.val) ELSE [ws |-> w, xf_index |-> 0]

insert_cell(w, row, col, cell) ==
    [w EXCEPT !.table = MapInsert(w.table, <<row, col>>, cell)]

\* ------------------------------------------------------------------------
\* utility.rs: cell names and ranges.
\* ------------------------------------------------------------------------
\* The letters of a column name, each as its number 1..26 (A = 1).
RECURSIVE col_to_name_loop(_, _)
col_to_name_loop(col_num, col_name) ==
    IF col_num > 0
    THEN LET remainder == IF col_num % 26 = 0 THEN 26 ELSE col_num % 26
         IN  col_to_name_loop((col_num - 1) \div 26, <<remainder>> \o col_name)
    ELSE col_name

col_to_name(col_num) == col_to_name_loop(col_num + 1, <<>>)

rowcol_to_cell(row_num, col_num) == [col |-> col_to_name(col_num), row |-> row_num + 1]

\* "A1" for a single cell, "A1:B2" otherwise.
cell_range(first_row, first_col, last_row, last_col) ==
    LET range1 == rowcol_to_cell(first_row, first_col)
        range2 == rowcol_to_cell(last_row, last_col)
    IN  IF range1 = range2 THEN <<range1>> ELSE <<range1, range2>>

\* ------------------------------------------------------------------------
\* CellType.
\* ------------------------------------------------------------------------
CellNumber(number, xf_index) ==
    [type |-> "Number", number |-> number, xf_index |-> xf_index]
CellDateTime(number, xf_index) ==
    [type |-> "DateTime", number |-> number, xf_index |-> xf_index]
CellString(string, xf_index) ==
    [type |-> "String", string |-> string, xf_index |-> xf_index]
CellFormula(formula, xf_index, result) ==
    [type |-> "Formula", formula |-> formula, xf_index |-> xf_index, result |-> result]
CellArrayFormula(formula, xf_index, result, is_dynamic, range) ==
    [type |-> "ArrayFormula", formula |-> formula, xf_index |-> xf_index,
     result |-> result, is_dynamic |-> is_dynamic, range |-> range]
CellBlank(xf_index) == [type |-> "Blank", xf_index |-> xf_index]
CellBoolean(boolean, xf_index) ==
    [type |-> "Boolean", boolean |-> boolean, xf_index |-> xf_index]

\* ------------------------------------------------------------------------
\* The store_* methods.
\* ------------------------------------------------------------------------
store_blank(w, row, col, format) ==
    LET chk == check_dimensions(w, row, col)
        fi == format_index(chk.ws, format)
    IN  IF ~chk.ok
        THEN Ret(chk.ws, "RowColumnLimitError")
        ELSE Ret(insert_cell(fi.ws, row, col, CellBlank(fi.xf_index)), "Ok")

write_blank(w, row, col, format) == store_blank(w, row, col, format)

\* store_string refusing a string of exactly MAX_STRING_LEN characters.
store_string_off_by_one(w, row, col, string, format) ==
    IF string.chars = 0
    THEN IF format.some THEN write_blank(w, row, col, format.val) ELSE Ret(w, "Ok")
    ELSE LET chk == check_dimensions(w, row, col)
             fi == format_index_opt(chk.ws, format)
         IN  IF ~chk.ok
             THEN Ret(chk.ws, "RowColumnLimitError")
             ELSE IF string.chars >= MAX_STRING_LEN
             THEN Ret(chk.ws, "MaxStringLengthExceeded")
             ELSE Ret([insert_cell(fi.ws, row, col, CellString(string, fi.xf_index))
                          EXCEPT !.uses_string_table = TRUE],
                      "Ok")

store_string(w, row, col, string, format) ==
    IF string.chars = 0
    THEN IF format.some THEN write_blank(w, row, col, format.val) ELSE Ret(w, "Ok")
    ELSE LET chk == check_dimensions(w, row, col)
             fi == format_index_opt(chk.ws, format)
         IN  IF ~chk.ok
             THEN Ret(chk.ws, "RowColumnLimitError")
             ELSE IF string.chars > MAX_STRING_LEN
             THEN Ret(chk.ws, "MaxStringLengthExceeded")
             ELSE Ret([insert_cell(fi.ws, row, col, CellString(string, fi.xf_index))
                          EXCEPT !.uses_string_table = TRUE],
                      "Ok")

write_string(w, row, col, string) == store_string(w, row, col, string, None)

write_string_with_format(w, row, col, string, format) ==
    store_string(w, row, col, string, Some(format))

store_number_type(w, row, col, number, format, is_datetime) ==
    LET chk == check_dimensions(w, row, col)
        div == store_string(chk.ws, row, col, DivError, None)
        \* The worksheet the code goes on with after the infinity branch.
        w1 == IF is_infinite(number) THEN div.ws ELSE chk.ws
        fi == format_index_opt(w1, format)
        cell == IF is_datetime
                THEN CellDateTime(number, fi.xf_index)
                ELSE CellNumber(number, fi.xf_index)
    IN  IF ~chk.ok
        THEN Ret(chk.ws, "RowColumnLimitError")
        ELSE IF is_nan(number)
        THEN store_string(chk.ws, row, col, NumError, None)
        ELSE IF is_infinite(number) /\ div.res # "Ok"
        THEN Ret(div.ws, div.res)
        ELSE Ret(insert_cell(fi.ws, row, col, cell), "Ok")

store_number(w, row, col, number, format) ==
    store_number_type(w, row, col, number, format, FALSE)

store_datetime(w, row, col, number, format) ==
    store_number_type(w, row, col, number, format, TRUE)

write_number(w, row, col, number) == store_number(w, row, col, number, None)

write_number_with_format(w, row, col, number, format) ==
    store_number(w, row, col, number, Some(format))

store_boolean(w, row, col, boolean, format) ==
    LET chk == check_dimensions(w, row, col)
        fi == format_index_opt(chk.ws, format)
    IN  IF ~chk.ok
        THEN Ret(chk.ws, "RowColumnLimitError")
        ELSE Ret(insert_cell(fi.ws, row, col, CellBoolean(boolean, fi.xf_index)), "Ok")


\* ------------------------------------------------------------------------
\* The formula preprocessor.  A formula is a sequence of tokens, each a
\* piece of the string: "{", "=", "}", "(", ")", a function name, an
\* operand, or one of the prefixes "_xlfn." and "_xlws.".
\* ------------------------------------------------------------------------
\* The alternatives of the regex of escape_dynamic_formulas1.
XLFN ==
    {"ANCHORARRAY", "LAMBDA", "LET", "RANDARRAY", "SEQUENCE", "SINGLE", "SORTBY",
     "UNIQUE", "XLOOKUP", "XMATCH"}

\* The alternatives of the regex of escape_dynamic_formulas2.
XLWS == {"FILTER", "SORT"}

\* The alternatives of the regex of escape_future_functions.
FUTURE ==
    {
     "ACOTH", "ACOT", "AGGREGATE", "ARABIC", "BASE", "BETA.DIST",
     "BETA.INV", "BINOM.DIST.RANGE", "BINOM.DIST", "BINOM.INV", "BITAND",
     "BITLSHIFT", "BITOR", "BITRSHIFT", "BITXOR", "CEILING.MATH",
     "CEILING.PRECISE", "CHISQ.DIST.RT", "CHISQ.DIST", "CHISQ.INV.RT",
     "CHISQ.INV", "CHISQ.TEST", "COMBINA", "CONCAT", "CONFIDENCE.NORM",
     "CONFIDENCE.T", "COTH", "COT", "COVARIANCE.P", "COVARIANCE.S", "CSCH",
     "CSC", "DAYS", "DECIMAL", "ERF.PRECISE", "ERFC.PRECISE", "EXPON.DIST",
     "F.DIST.RT", "F.DIST", "F.INV.RT", "F.INV", "F.TEST", "FILTERXML",
     "FLOOR.MATH", "FLOOR.PRECISE", "FORECAST.ETS.CONFINT",
     "FORECAST.ETS.SEASONALITY", "FORECAST.ETS.STAT", "FORECAST.ETS",
     "FORECAST.LINEAR", "FORMULATEXT", "GAMMA.DIST", "GAMMA.INV",
     "GAMMALN.PRECISE", "GAMMA", "GAUSS", "HYPGEOM.DIST", "IFNA", "IFS",
     "IMCOSH", "IMCOT", "IMCSCH", "IMCSC", "IMSECH", "IMSEC", "IMSINH",
     "IMTAN", "ISFORMULA", "ISOWEEKNUM", "LOGNORM.DIST", "LOGNORM.INV",
     "MAXIFS", "MINIFS", "MODE.MULT", "MODE.SNGL", "MUNIT",
     "NEGBINOM.DIST", "NORM.DIST", "NORM.INV", "NORM.S.DIST", "NORM.S.INV",
     "NUMBERVALUE", "PDURATION", "PERCENTILE.EXC", "PERCENTILE.INC",
     "PERCENTRANK.EXC", "PERCENTRANK.INC", "PERMUTATIONA", "PHI",
     "POISSON.DIST", "QUARTILE.EXC", "QUARTILE.INC", "QUERYSTRING",
     "RANK.AVG", "RANK.EQ", "RRI", "SECH", "SEC", "SHEETS", "SHEET",
     "SKEW.P", "STDEV.P", "STDEV.S", "SWITCH", "T.DIST.2T", "T.DIST.RT",
     "T.DIST", "T.INV.2T", "T.INV", "T.TEST", "TEXTJOIN", "UNICHAR",
     "UNICODE", "VAR.P", "VAR.S", "WEBSERVICE", "WEIBULL.DIST", "XOR",
     "Z.TEST"
    }

\* The alternatives of the regex of is_dynamic_function.
DYNAMIC_FUNCTION ==
    {"ANCHORARRAY", "FILTER", "LAMBDA", "LET", "RANDARRAY", "SEQUENCE", "SINGLE",
     "SORTBY", "SORT", "UNIQUE", "XLOOKUP", "XMATCH"}

\* Tokens whose last character is not a word character, so that a word
\* boundary (\b) lies between them and a following name.
NonWordEnd == {"{", "=", "}", "(", ")", ",", "_xlfn.", "_xlws."}

\* `\b(name1|name2|...)\(` matches at token i of the formula.
MatchesAt(formula, i, names) ==
    /\ formula[i] \in names
    /\ i < Len(formula)
    /\ formula[i + 1] = "("
    /\ (i = 1 \/ formula[i - 1] \in NonWordEnd)

\* Regex::replace_all(formula, prefix + "$1("), from token i on.
RECURSIVE replace_all(_, _, _, _)
replace_all(formula, i, names, prefix) ==
    IF i > Len(formula)
    THEN <<>>
    ELSE (IF MatchesAt(formula, i, names) THEN prefix ELSE <<>>)
             \o <<formula[i]>> \o replace_all(formula, i + 1, names, prefix)

escape_dynamic_formulas1(formula) == replace_all(formula, 1, XLFN, <<"_xlfn.">>)

escape_dynamic_formulas2(formula) ==
    replace_all(formula, 1, XLWS, <<"_xlfn.", "_xlws.">>)

escape_future_functions(formula) == replace_all(formula, 1, FUTURE, <<"_xlfn.">>)

is_dynamic_function(formula) ==
    \E i \in 1..Len(formula) : MatchesAt(formula, i, DYNAMIC_FUNCTION)

\* formula.contains("_xlfn.").
ContainsXlfn(formula) == \E i \in 1..Len(formula) : formula[i] = "_xlfn."

\* The first three steps of prepare_formula: one leading "{", then one
\* leading "=", then one trailing "}" are removed.
StripBraces(formula) ==
    LET f1 == IF Len(formula) > 0 /\ Head(formula) = "{" THEN Tail(formula) ELSE formula
        f2 == IF Len(f1) > 0 /\ Head(f1) = "=" THEN Tail(f1) ELSE f1
    IN  IF Len(f2) > 0 /\ f2[Len(f2)] = "}" THEN SubSeq(f2, 1, Len(f2) - 1) ELSE f2

\* prepare_formula without the exit for a formula that holds "_xlfn.".
prepare_formula_no_exit(formula, expand_future_functions) ==
    LET stripped == StripBraces(formula)
        dynamic == escape_dynamic_formulas2(escape_dynamic_formulas1(stripped))
    IN  IF expand_future_functions
        THEN escape_future_functions(dynamic)
        ELSE dynamic

prepare_formula(formula, expand_future_functions) ==
    LET stripped == StripBraces(formula)
        dynamic == escape_dynamic_formulas2(escape_dynamic_formulas1(stripped))
    IN  IF ContainsXlfn(stripped)
        THEN stripped
        ELSE IF expand_future_functions
        THEN escape_future_functions(dynamic)
        ELSE dynamic

\* ------------------------------------------------------------------------
\* Formula cells.
\* ------------------------------------------------------------------------
\* The cells of a range in the order of `for row .. for col ..`.
RangeCells(first_row, first_col, last_row, last_col) ==
    LET nrows == last_row - first_row + 1
        ncols == last_col - first_col + 1
    IN  IF nrows <= 0 \/ ncols <= 0
        THEN <<>>
        ELSE [i \in 1..(nrows * ncols) |->
                 <<first_row + ((i - 1) \div ncols), first_col + ((i - 1) % ncols)>>]

\* The padding loop of store_array_formula: a formatted zero in every cell
\* of the range but the first; each write is unwrapped.
RECURSIVE pad_array_formula(_, _, _, _)
pad_array_formula(w, cells, i, format) ==
    IF i > Len(cells)
    THEN Ret(w, "Ok")
    ELSE LET r == IF format.some
                  THEN write_number_with_format(w, cells[i][1], cells[i][2],
                                                Finite(0), format.val)
                  ELSE write_number(w, cells[i][1], cells[i][2], Finite(0))
         IN  IF i = 1
             THEN pad_array_formula(w, cells, i + 1, format)
             ELSE IF r.res # "Ok"
             THEN Ret(r.ws, "Panic")
             ELSE pad_array_formula(r.ws, cells, i + 1, format)

store_array_formula(w, first_row, first_col, last_row, last_col, formula, format, is_dynamic) ==
    LET chk1 == check_dimensions(w, first_row, first_col)
        chk2 == check_dimensions(chk1.ws, last_row, last_col)
        \* `||` does not evaluate the second check when the first one fails.
        chk == IF chk1.ok THEN chk2 ELSE chk1
        fi == format_index_opt(chk.ws, format)
        prepared_formula == prepare_formula(formula, w.use_future_functions)
        range == cell_range(first_row, first_col, last_row, last_col)
        dynamic == is_dynamic \/ is_dynamic_function(prepared_formula)
        w1 == [fi.ws EXCEPT !.has_dynamic_arrays = fi.ws.has_dynamic_arrays \/ dynamic]
        cell == CellArrayFormula(prepared_formula, fi.xf_index, w.default_result,
                                 dynamic, range)
    IN  IF ~chk.ok
        THEN Ret(chk.ws, "RowColumnLimitError")
        ELSE IF first_row > last_row \/ first_col > last_col
        THEN Ret(chk.ws, "RowColumnOrderError")
        ELSE pad_array_formula(insert_cell(w1, first_row, first_col, cell),
                               RangeCells(first_row, first_col, last_row, last_col),
                               1, format)

\* store_formula without the transfer to store_array_formula.
store_formula_no_promotion(w, row, col, formula, format) ==
    LET chk == check_dimensions(w, row, col)
        fi == format_index_opt(chk.ws, format)
        cell == CellFormula(prepare_formula(formula, w.use_future_functions),
                            fi.xf_index, w.default_result)
    IN  IF ~chk.ok
        THEN Ret(chk.ws, "RowColumnLimitError")
        ELSE Ret(insert_cell(fi.ws, row, col, cell), "Ok")

store_formula(w, row, col, formula, format) ==
    LET chk == check_dimensions(w, row, col)
        fi == format_index_opt(chk.ws, format)
        cell == CellFormula(prepare_formula(formula, w.use_future_functions),
                            fi.xf_index, w.default_result)
    IN  IF is_dynamic_function(formula)
        THEN store_array_formula(w, row, col, row, col, formula, None, TRUE)
        ELSE IF ~chk.ok
        THEN Ret(chk.ws, "RowColumnLimitError")
        ELSE Ret(insert_cell(fi.ws, row, col, cell), "Ok")

write_formula(w, row, col, formula) == store_formula(w, row, col, formula, None)

write_formula_with_format(w, row, col, formula, format) ==
    store_formula(w, row, col, formula, Some(format))

set_formula_result_default(w, result) == [w EXCEPT !.default_result = result]

use_future_functions_set(w, enable) == [w EXCEPT !.use_future_functions = enable]


\* ------------------------------------------------------------------------
\* Row and column options.
\* ------------------------------------------------------------------------
RowOptions(height, xf_index, is_hidden) ==
    [height |-> height, xf_index |-> xf_index, hidden |-> is_hidden]

ColOptions(width, xf_index, is_hidden, autofit) ==
    [width |-> width, xf_index |-> xf_index, hidden |-> is_hidden, autofit |-> autofit]

\* The column the row setters hand to check_dimensions.
MinCol(w) == IF w.dimensions.first_col # COL_MAX THEN w.dimensions.first_col ELSE 0

\* The row set_column_format hands to check_dimensions.
MinRow(w) == IF w.dimensions.first_row # ROW_MAX THEN w.dimensions.first_row ELSE 0

set_row_hidden(w, row) ==
    LET chk == check_dimensions(w, row, MinCol(w))
        options == IF row \in DOMAIN chk.ws.changed_rows
                   THEN [chk.ws.changed_rows[row] EXCEPT !.hidden = TRUE]
                   ELSE RowOptions(DEFAULT_ROW_HEIGHT, 0, TRUE)
    IN  IF ~chk.ok
        THEN Ret(chk.ws, "RowColumnLimitError")
        ELSE Ret([chk.ws EXCEPT !.changed_rows = MapInsert(@, row, options)], "Ok")

set_row_height(w, row, height) ==
    LET chk == check_dimensions(w, row, MinCol(w))
        options == IF row \in DOMAIN chk.ws.changed_rows
                   THEN [chk.ws.changed_rows[row] EXCEPT !.height = height]
                   ELSE RowOptions(height, 0, FALSE)
    IN  IF height = 0
        THEN set_row_hidden(w, row)
        ELSE IF ~chk.ok
        THEN Ret(chk.ws, "RowColumnLimitError")
        ELSE Ret([chk.ws EXCEPT !.changed_rows = MapInsert(@, row, options)], "Ok")

set_row_format(w, row, format) ==
    LET chk == check_dimensions(w, row, MinCol(w))
        fi == format_index(chk.ws, format)
        options == IF row \in DOMAIN fi.ws.changed_rows
                   THEN [fi.ws.changed_rows[row] EXCEPT !.xf_index = fi.xf_index]
                   ELSE RowOptions(DEFAULT_ROW_HEIGHT, fi.xf_index, FALSE)
    IN  IF ~chk.ok
        THEN Ret(chk.ws, "RowColumnLimitError")
        ELSE Ret([fi.ws EXCEPT !.changed_rows = MapInsert(@, row, options)], "Ok")

set_column_format(w, col, format) ==
    LET chk == check_dimensions(w, MinRow(w), col)
        fi == format_index(chk.ws, format)
        options == IF col \in DOMAIN fi.ws.changed_cols
                   THEN [fi.ws.changed_cols[col] EXCEPT !.xf_index = fi.xf_index]
                   ELSE ColOptions(DEFAULT_COL_WIDTH, fi.xf_index, FALSE, FALSE)
    IN  IF ~chk.ok
        THEN Ret(chk.ws, "RowColumnLimitError")
        ELSE Ret([fi.ws EXCEPT !.changed_cols = MapInsert(@, col, options)], "Ok")

set_column_hidden(w, col) ==
    LET options == IF col \in DOMAIN w.changed_cols
                   THEN [w.changed_cols[col] EXCEPT !.hidden = TRUE]
                   ELSE ColOptions(DEFAULT_COL_WIDTH, 0, TRUE, FALSE)
    IN  IF col >= COL_MAX
        THEN Ret(w, "RowColumnLimitError")
        ELSE Ret([w EXCEPT !.changed_cols = MapInsert(@, col, options)], "Ok")

set_global_xf_indices(w, workbook_indices) ==
    [w EXCEPT !.global_xf_indices = workbook_indices]

\* ------------------------------------------------------------------------
\* Emission of the sheet XML.
\* ------------------------------------------------------------------------
\* The ref attribute of <dimension>.
write_dimension(w) ==
    IF \/ w.dimensions.first_row # ROW_MAX
       \/ w.dimensions.first_col # COL_MAX
       \/ w.dimensions.last_row # 0
       \/ w.dimensions.last_col # 0
    THEN cell_range(w.dimensions.first_row, w.dimensions.first_col,
                    w.dimensions.last_row, w.dimensions.last_col)
    ELSE <<rowcol_to_cell(0, 0)>>

\* get_cell_xf_index with the column format looked up before the row format.
get_cell_xf_index_column_first(w, xf_index, row_options, col_num) ==
    LET xf1 == IF xf_index = 0 /\ col_num \in DOMAIN w.changed_cols
               THEN w.changed_cols[col_num].xf_index
               ELSE xf_index
        xf2 == IF xf1 = 0 /\ row_options.some
               THEN row_options.val.xf_index
               ELSE xf1
    IN  IF xf2 # 0 THEN w.global_xf_indices[xf2 + 1] ELSE xf2

\* The workbook xf index written for a cell (Vec indices count from 0).
get_cell_xf_index(w, xf_index, row_options, col_num) ==
    LET xf1 == IF xf_index = 0 /\ row_options.some
               THEN row_options.val.xf_index
               ELSE xf_index
        xf2 == IF xf1 = 0 /\ col_num \in DOMAIN w.changed_cols
               THEN w.changed_cols[col_num].xf_index
               ELSE xf1
    IN  IF xf2 # 0 THEN w.global_xf_indices[xf2 + 1] ELSE xf2

\* Whether the <c> element of the cell has the attribute cm="1", which
\* only write_array_formula_cell writes.
write_array_formula_cell_cm(cell) ==
    IF cell.type = "ArrayFormula" THEN cell.is_dynamic ELSE FALSE

\* write_blank_cell writing the element whatever the index.
WritesElement_always(cell, xf_index) == TRUE

\* Whether write_*_cell writes a <c> element for the cell.
WritesElement(cell, xf_index) == cell.type # "Blank" \/ xf_index > 0

\* The <c> elements of <sheetData>, in the order they are written: each
\* with its position, the variant written and its s attribute (0: none).
write_data_table(w) ==
    LET cells == RangeCells(w.dimensions.first_row, w.dimensions.first_col,
                            w.dimensions.last_row, w.dimensions.last_col)
        row_options(row_num) == IF row_num \in DOMAIN w.changed_rows
                                THEN Some(w.changed_rows[row_num])
                                ELSE None
        style(p) == get_cell_xf_index(w, w.table[p].xf_index, row_options(p[1]), p[2])
        written == SelectSeq(cells, LAMBDA p : /\ p \in DOMAIN w.table
                                               /\ WritesElement(w.table[p], style(p)))
    IN  [i \in 1..Len(written) |->
            [row |-> written[i][1], col |-> written[i][2],
             type |-> w.table[written[i]].type, s |-> style(written[i]),
             cm |-> write_array_formula_cell_cm(w.table[written[i]])]]


\* ------------------------------------------------------------------------
\* Actions: one public method call on the worksheet.
\* ------------------------------------------------------------------------
\* A call that ran to its return (a panic ends the run of the program).
CallUpTo(bound, op, args, r) ==
    /\ nops < bound
    /\ last.res # "Panic"
    /\ \E returned \in {r} :
           /\ Commit(returned.ws)
           /\ last' = [op |-> op, args |-> args, res |-> returned.res]
    /\ nops' = nops + 1
    /\ UNCHANGED <<fvars, xvars>>

Call(op, args, r) == CallUpTo(MaxOps, op, args, r)

WriteNumber(row, col, number) ==
    Call("write_number", [row |-> row, col |-> col, number |-> number, format |-> None],
         write_number(WS, row, col, number))

WriteNumberWithFormat(row, col, number, format) ==
    Call("write_number",
         [row |-> row, col |-> col, number |-> number, format |-> Some(format)],
         write_number_with_format(WS, row, col, number, format))

WriteString(row, col, string) ==
    Call("write_string", [row |-> row, col |-> col, string |-> string, format |-> None],
         write_string(WS, row, col, string))

WriteStringWithFormat(row, col, string, format) ==
    Call("write_string",
         [row |-> row, col |-> col, string |-> string, format |-> Some(format)],
         write_string_with_format(WS, row, col, string, format))

WriteBlank(row, col, format) ==
    Call("write_blank", [row |-> row, col |-> col, format |-> Some(format)],
         write_blank(WS, row, col, format))

WriteFormula(row, col, formula) ==
    Call("write_formula",
         [row |-> row, col |-> col, formula |-> formula, format |-> None],
         write_formula(WS, row, col, formula))

WriteFormulaWithFormat(row, col, formula, format) ==
    Call("write_formula",
         [row |-> row, col |-> col, formula |-> formula, format |-> Some(format)],
         write_formula_with_format(WS, row, col, formula, format))

SetFormulaResultDefault(result) ==
    Call("set_formula_result_default", [result |-> result],
         Ret(set_formula_result_default(WS, result), "Ok"))

UseFutureFunctions(enable) ==
    Call("use_future_functions", [enable |-> enable],
         Ret(use_future_functions_set(WS, enable), "Ok"))

SetRowHeight(row, height) ==
    Call("set_row_height", [row |-> row, height |-> height],
         set_row_height(WS, row, height))

SetRowFormat(row, format) ==
    Call("set_row_format", [row |-> row, format |-> Some(format)],
         set_row_format(WS, row, format))

SetColumnFormat(col, format) ==
    Call("set_column_format", [col |-> col, format |-> Some(format)],
         set_column_format(WS, col, format))

SetColumnHidden(col) ==
    Call("set_column_hidden", [col |-> col], set_column_hidden(WS, col))

\* The workbook hands the worksheet its index table when it is saved.
SetGlobalXfIndices(workbook_indices) ==
    Call("set_global_xf_indices", [indices |-> workbook_indices],
         Ret(set_global_xf_indices(WS, workbook_indices), "Ok"))

\* Formats and strings of the callers.
Bold == Fmt("bold", FALSE)
Italic == Fmt("italic", FALSE)
ShortString == Str(<<"a">>, 1)
LongestString == Str(<<"longest">>, MAX_STRING_LEN)
TooLongString == Str(<<"too long">>, MAX_STRING_LEN + 1)

\* ------------------------------------------------------------------------
\* SpecDim: cell writes and row/column setters, for the <dimension> range.
\* ------------------------------------------------------------------------
DimRows == {1, 2, ROW_MAX}
DimCols == {1, 2, COL_MAX}

NextDim ==
    \E row \in DimRows, col \in DimCols :
        \/ \E string \in {ShortString, TooLongString, EmptyStr} :
               WriteString(row, col, string)
        \/ \E format \in {DefaultFormat, Bold} : WriteBlank(row, col, format)
        \/ \E height \in {0, 30} : SetRowHeight(row, height)
        \/ SetColumnFormat(col, Bold)

SpecDim == Init /\ [][NextDim]_vars

\* The cells of the store that are not empty blanks.
NonEmptyCells ==
    {p \in DOMAIN table : ~(table[p].type = "Blank" /\ table[p].xf_index = 0)}

\* The ref of the bounding box of a set of positions, "A1" for none.
BoundingBoxRef(cells) ==
    IF cells = {}
    THEN <<rowcol_to_cell(0, 0)>>
    ELSE LET rows == {p[1] : p \in cells}
             cols == {p[2] : p \in cells}
             lo(S) == CHOOSE x \in S : \A y \in S : x <= y
             hi(S) == CHOOSE x \in S : \A y \in S : x >= y
         IN  cell_range(lo(rows), lo(cols), hi(rows), hi(cols))

\* C1 as stated: the <dimension ref> is the bounding box of the cells that
\* are not empty blanks, "A1" when there is none.
C1_DimensionIsBoundingBox == write_dimension(WS) = BoundingBoxRef(NonEmptyCells)

\* C1 as amended: the <dimension ref> is the range accumulated by the range
\* checks ("A1" while no position passed one); that range contains every
\* cell of the store and every row that has row options.
C1_DimensionCoversStore ==
    /\ \A p \in DOMAIN table :
           /\ dimensions.first_row <= p[1] /\ p[1] <= dimensions.last_row
           /\ dimensions.first_col <= p[2] /\ p[2] <= dimensions.last_col
    /\ \A row \in DOMAIN changed_rows :
           dimensions.first_row <= row /\ row <= dimensions.last_row
    /\ write_dimension(WS) =
           IF DOMAIN table = {} /\ DOMAIN changed_rows = {} /\ dimensions = InitDimensions
           THEN <<rowcol_to_cell(0, 0)>>
           ELSE cell_range(dimensions.first_row, dimensions.first_col,
                           dimensions.last_row, dimensions.last_col)

\* A failed write and a row setter have widened the range around a cell.
C1_Witness ==
    /\ last.res = "MaxStringLengthExceeded"
    /\ NonEmptyCells # {}
    /\ DOMAIN changed_rows # {}
    /\ write_dimension(WS) # BoundingBoxRef(NonEmptyCells)


\* ------------------------------------------------------------------------
\* SpecXf: cell, row and column formats, for the style index of a cell.
\* ------------------------------------------------------------------------
\* Largest workbook xf index of the index tables tried at save time.
MaxGlobalXf == 3

XfRows == {0, 1}
XfCols == {0, 1}

NextXf ==
    \E row \in XfRows, col \in XfCols :
        \/ WriteNumber(row, col, Finite(1))
        \/ WriteNumberWithFormat(row, col, Finite(1), Bold)
        \/ WriteBlank(row, col, Italic)
        \/ \E format \in {Bold, Italic} : SetRowFormat(row, format)
        \/ SetRowHeight(row, 30)
        \/ \E format \in {Bold, Italic} : SetColumnFormat(col, format)
        \/ SetColumnHidden(col)

SpecXf == Init /\ [][NextXf]_vars

\* The index tables a workbook can hand to a worksheet with n local
\* formats: the default format is workbook index 0, every other format has
\* a workbook index of its own.
GlobalTables(n) ==
    {g \in [1..n -> 0..MaxGlobalXf] :
        /\ g[1] = 0
        /\ \A i, j \in 1..n : i # j => g[i] # g[j]}

\* The worksheet as the workbook saves it with index table g.
SavedWith(g) == set_global_xf_indices(WS, g)

\* resolve(cell, row, column): the local index the claim names.
ResolveLocal(p) ==
    IF table[p].xf_index # 0
    THEN table[p].xf_index
    ELSE IF p[1] \in DOMAIN changed_rows /\ changed_rows[p[1]].xf_index # 0
    THEN changed_rows[p[1]].xf_index
    ELSE IF p[2] \in DOMAIN changed_cols
    THEN changed_cols[p[2]].xf_index
    ELSE 0

\* C2: every emitted <c> carries the style index resolve(cell, row, column):
\* the cell's own index, else the row's, else the column's, translated
\* through the local-to-global table unless it is 0.
C2_StyleIsResolved ==
    \A g \in GlobalTables(Len(xf_formats)) :
        LET cells == write_data_table(SavedWith(g))
        IN  \A i \in 1..Len(cells) :
                LET local == ResolveLocal(<<cells[i].row, cells[i].col>>)
                IN  cells[i].s = IF local # 0 THEN g[local + 1] ELSE 0

\* An unformatted cell in a formatted row of a differently formatted column.
C2_Witness ==
    \E p \in DOMAIN table :
        /\ table[p].xf_index = 0
        /\ p[1] \in DOMAIN changed_rows
        /\ p[2] \in DOMAIN changed_cols
        /\ changed_rows[p[1]].xf_index # 0
        /\ changed_cols[p[2]].xf_index # 0
        /\ changed_rows[p[1]].xf_index # changed_cols[p[2]].xf_index
        /\ \E g \in GlobalTables(Len(xf_formats)) :
               \E i \in 1..Len(write_data_table(SavedWith(g))) :
                   /\ write_data_table(SavedWith(g))[i].row = p[1]
                   /\ write_data_table(SavedWith(g))[i].col = p[2]
                   /\ write_data_table(SavedWith(g))[i].s =
                          g[changed_rows[p[1]].xf_index + 1]
                   /\ g[changed_rows[p[1]].xf_index + 1] # changed_rows[p[1]].xf_index


\* ------------------------------------------------------------------------
\* Merged ranges.
\* ------------------------------------------------------------------------
CellRange(first_row, first_col, last_row, last_col) ==
    [first_row |-> first_row, first_col |-> first_col,
     last_row |-> last_row, last_col |-> last_col]

to_range_string(range) ==
    cell_range(range.first_row, range.first_col, range.last_row, range.last_col)

\* The padding loop of merge_range: a formatted blank in every cell of the
\* range but the first; `?` returns the first error.
RECURSIVE pad_merge_range(_, _, _, _)
pad_merge_range(w, cells, i, format) ==
    IF i > Len(cells)
    THEN Ret(w, "Ok")
    ELSE LET r == write_blank(w, cells[i][1], cells[i][2], format)
         IN  IF i = 1
             THEN pad_merge_range(w, cells, i + 1, format)
             ELSE IF r.res # "Ok"
             THEN r
             ELSE pad_merge_range(r.ws, cells, i + 1, format)

\* The overlap loop looking up the first cell of the range only.
check_merge_overlap_first_cell(w, cells, i, new_index) ==
    LET entered == [p \in DOMAIN w.merged_cells \cup {cells[k] : k \in 1..Len(cells)} |->
                       IF p \in DOMAIN w.merged_cells THEN w.merged_cells[p] ELSE new_index]
    IN  IF Len(cells) > 0 /\ cells[1] \in DOMAIN w.merged_cells
        THEN [ws |-> w, res |-> "MergeRangeOverlaps",
              previous |-> Some(w.merged_ranges[w.merged_cells[cells[1]] + 1])]
        ELSE [ws |-> [w EXCEPT !.merged_cells = entered], res |-> "Ok", previous |-> None]

\* The overlap loop of merge_range: every cell of the range is looked up in
\* merged_cells and entered under new_index until one is found there; the
\* range found is fetched with `merged_ranges.get(*index).unwrap()`.
RECURSIVE check_merge_overlap(_, _, _, _)
check_merge_overlap(w, cells, i, new_index) ==
    IF i > Len(cells)
    THEN [ws |-> w, res |-> "Ok", previous |-> None]
    ELSE IF cells[i] \in DOMAIN w.merged_cells
    THEN LET index == w.merged_cells[cells[i]]
         IN  IF index + 1 \in DOMAIN w.merged_ranges
             THEN [ws |-> w, res |-> "MergeRangeOverlaps",
                   previous |-> Some(w.merged_ranges[index + 1])]
             ELSE [ws |-> w, res |-> "Panic", previous |-> None]
    ELSE check_merge_overlap(
             [w EXCEPT !.merged_cells = MapInsert(@, cells[i], new_index)],
             cells, i + 1, new_index)

merge_range(w, first_row, first_col, last_row, last_col, string, format) ==
    LET chk1 == check_dimensions(w, first_row, first_col)
        chk2 == check_dimensions(chk1.ws, last_row, last_col)
        chk == IF chk1.ok THEN chk2 ELSE chk1
        cells == RangeCells(first_row, first_col, last_row, last_col)
        first == write_string_with_format(chk.ws, first_row, first_col, string, format)
        padded == pad_merge_range(first.ws, cells, 1, format)
        overlap == check_merge_overlap(padded.ws, cells, 1, Len(padded.ws.merged_ranges))
        cell_range_new == CellRange(first_row, first_col, last_row, last_col)
        fail(w1, res) == [ws |-> w1, res |-> res, previous |-> None]
    IN  IF ~chk.ok
        THEN fail(chk.ws, "RowColumnLimitError")
        ELSE IF first_row > last_row \/ first_col > last_col
        THEN fail(chk.ws, "RowColumnOrderError")
        ELSE IF first_row = last_row /\ first_col = last_col
        THEN fail(chk.ws, "MergeRangeSingleCell")
        ELSE IF first.res # "Ok"
        THEN fail(first.ws, first.res)
        ELSE IF padded.res # "Ok"
        THEN fail(padded.ws, padded.res)
        ELSE IF overlap.res # "Ok"
        THEN overlap
        ELSE [ws |-> [overlap.ws EXCEPT !.merged_ranges = Append(@, cell_range_new)],
              res |-> "Ok", previous |-> None]

\* The <mergeCells> element: its count and the ref of each <mergeCell>.
write_merge_cells(w) ==
    [count |-> Len(w.merged_ranges),
     refs |-> [i \in 1..Len(w.merged_ranges) |-> to_range_string(w.merged_ranges[i])]]

MergeRange(range, string, format) ==
    LET r == merge_range(WS, range.first_row, range.first_col, range.last_row,
                         range.last_col, string, format)
    IN  /\ nops < MaxOps
        /\ last.res # "Panic"
        /\ Commit(r.ws)
        /\ last' = [op |-> "merge_range",
                    args |-> [range |-> range, string |-> string,
                              format |-> Some(format)],
                    res |-> r.res, previous |-> r.previous]
        /\ nops' = nops + 1
        /\ UNCHANGED <<fvars, xvars>>

\* ------------------------------------------------------------------------
\* SpecMerge: merge_range calls on one worksheet.
\* ------------------------------------------------------------------------
MergeRows == {0, 1}
MergeCols == {0, 1}

\* Every range over the grid, well formed or not, and one beyond the limit.
MergeRequests ==
    {CellRange(fr, fc, lr, lc) : fr \in MergeRows, fc \in MergeCols,
                                 lr \in MergeRows, lc \in MergeCols}
        \cup {CellRange(0, 0, ROW_MAX, 0), CellRange(0, 0, 0, COL_MAX)}

NextMerge == \E range \in MergeRequests : MergeRange(range, ShortString, Bold)

SpecMerge == Init /\ [][NextMerge]_vars

\* The cells of a range.
CellsOf(range) ==
    {<<row, col>> : row \in range.first_row..range.last_row,
                    col \in range.first_col..range.last_col}

SharesCell(a, b) == CellsOf(a) \cap CellsOf(b) # {}

\* In bounds, first <= last, more than one cell.
WellFormedMerge(range) ==
    /\ range.last_row < ROW_MAX /\ range.last_col < COL_MAX
    /\ range.first_row <= range.last_row /\ range.first_col <= range.last_col
    /\ ~(range.first_row = range.last_row /\ range.first_col = range.last_col)

\* C3: a merge_range call whose (well formed) range shares a cell with a
\* range accepted earlier returns MergeRangeOverlaps.
C3_OverlapIsRejected ==
    [][(/\ last'.op = "merge_range"
        /\ WellFormedMerge(last'.args.range)
        /\ \E i \in DOMAIN merged_ranges : SharesCell(last'.args.range, merged_ranges[i]))
       => last'.res = "MergeRangeOverlaps"]_vars


\* ------------------------------------------------------------------------
\* SpecStr: number and string writes.
\* ------------------------------------------------------------------------
StrCells == {<<0, 0>>, <<0, 1>>, <<ROW_MAX, 0>>}

NextStr ==
    \E p \in StrCells :
        \/ \E number \in {Finite(1), NaN, PosInf, NegInf} : WriteNumber(p[1], p[2], number)
        \/ \E string \in {ShortString, LongestString, TooLongString, EmptyStr} :
               WriteString(p[1], p[2], string)
        \/ \E string \in {TooLongString, EmptyStr} :
               WriteStringWithFormat(p[1], p[2], string, Bold)

SpecStr == Init /\ [][NextStr]_vars

InRange(row, col) == row < ROW_MAX /\ col < COL_MAX

\* The cell a call was made on, when it is in the store.
HasCell(args) == <<args.row, args.col>> \in DOMAIN table
CellAt(args) == table[<<args.row, args.col>>]

\* C4: a numeric write of NaN leaves the string "#NUM!" in the cell, one
\* of an infinity leaves the string "#DIV/0"; the call returns Ok.
C4_NanAndInfinityAreStrings ==
    (/\ last.op = "write_number"
     /\ InRange(last.args.row, last.args.col)
     /\ (is_nan(last.args.number) \/ is_infinite(last.args.number)))
    => /\ last.res = "Ok"
       /\ HasCell(last.args)
       /\ CellAt(last.args).type = "String"
       /\ CellAt(last.args).string =
              IF is_nan(last.args.number) THEN NumError ELSE DivError

\* C6: a string write to a cell within the limits succeeds if and only if
\* the string has at most 32,767 characters; a longer one returns
\* MaxStringLengthExceeded and leaves the cell as it was; a string that is
\* stored is the string that was written.
C6_StringLengthLimit ==
    [][(/\ last'.op = "write_string"
        /\ InRange(last'.args.row, last'.args.col))
       => LET p == <<last'.args.row, last'.args.col>>
              string == last'.args.string
          IN  /\ (last'.res = "Ok") <=> (string.chars <= MAX_STRING_LEN)
              /\ string.chars > MAX_STRING_LEN =>
                     /\ last'.res = "MaxStringLengthExceeded"
                     /\ (p \in DOMAIN table') <=> (p \in DOMAIN table)
                     /\ p \in DOMAIN table => table'[p] = table[p]
              /\ (string.chars > 0 /\ string.chars <= MAX_STRING_LEN) =>
                     /\ p \in DOMAIN table'
                     /\ table'[p].type = "String"
                     /\ table'[p].string = string]_vars

\* A string of 32,768 characters was refused on a cell that holds a string
\* of 32,767 characters.
C6_Witness ==
    /\ last.op = "write_string"
    /\ last.res = "MaxStringLengthExceeded"
    /\ HasCell(last.args)
    /\ CellAt(last.args).type = "String"
    /\ CellAt(last.args).string.chars = MAX_STRING_LEN


\* ------------------------------------------------------------------------
\* Hyperlinks.  A url string is given by its parts: the scheme it starts
\* with ("" for none), the characters between the scheme and the first
\* "#" (plain ones, ones of the escape set of escape_url, and whether a
\* %xx escape is among the plain ones), the number of characters after the
\* first "#" (plain ones), and whether the part after the scheme starts
\* like a remote file (\\ or a drive letter).
\* ------------------------------------------------------------------------
Url(scheme, name, plain, special, pct, anchor, remote) ==
    [scheme |-> scheme, name |-> name, plain |-> plain, special |-> special,
     pct |-> pct, anchor |-> anchor, remote |-> remote]

SchemeChars ==
    ("http://" :> 7) @@ ("https://" :> 8) @@ ("ftp://" :> 6) @@ ("ftps://" :> 7)
        @@ ("mailto:" :> 7) @@ ("internal:" :> 9) @@ ("file://" :> 7)
        @@ ("file:///" :> 8) @@ ("gopher://" :> 9) @@ ("" :> 0)

\* Characters after the scheme, the "#" and what follows it included.
RestChars(url) ==
    url.plain + url.special + (IF url.anchor.some THEN 1 + url.anchor.val ELSE 0)

\* url.chars().count().
UrlChars(url) == SchemeChars[url.scheme] + RestChars(url)

\* xmlwriter::escape_url: every character of the escape set becomes %XX.
escape_url_chars(plain, special) == plain + 3 * special

\* `^(ftp|http)s?://` matches the url.
IsWebUrl(url) == url.scheme \in {"http://", "https://", "ftp://", "ftps://"}

\* Hyperlink::initialize, on the lengths of the fields.
initialize(url, text) ==
    LET whole == Str(<<"url", url.scheme, url.name>>, UrlChars(url))
        no_scheme == Str(<<"rest", url.name>>, RestChars(url))
        anchor == IF url.anchor.some
                  THEN Str(<<"anchor", url.name>>, url.anchor.val)
                  ELSE EmptyStr
        \* The url field before it is escaped: the characters ahead of the
        \* part between scheme and "#", those of that part, those after it.
        kind == IF IsWebUrl(url) THEN "Url"
                ELSE IF url.scheme = "mailto:" THEN "Url"
                ELSE IF url.scheme = "internal:" THEN "Internal"
                ELSE IF url.scheme \in {"file://", "file:///"} THEN "File"
                ELSE "Unknown"
        split == IsWebUrl(url) \/ kind = "File"
        keeps_scheme == ~(kind = "File" /\ ~url.remote)
        before == IF keeps_scheme THEN SchemeChars[url.scheme] ELSE 0
        after == IF split \/ ~url.anchor.some THEN 0 ELSE 1 + url.anchor.val
        escaped == IF url.pct
                   THEN url.plain + url.special
                   ELSE escape_url_chars(url.plain, url.special)
        default_text == IF IsWebUrl(url) THEN whole
                        ELSE IF kind = "Unknown" THEN EmptyStr
                        ELSE no_scheme
    IN  [url |-> Str(<<"target", url.scheme, url.name>>, before + escaped + after),
         text |-> IF text.chars = 0 THEN default_text ELSE text,
         location |-> IF kind = "Internal" THEN no_scheme
                      ELSE IF split THEN anchor
                      ELSE EmptyStr,
         link_type |-> kind,
         ref_id |-> 0]

\* Hyperlink::new without the length check of the location.
HyperlinkNew_no_location_check(url, text, tip) ==
    LET hyperlink == initialize(url, text) @@ [tip |-> tip]
    IN  IF \/ hyperlink.url.chars > MAX_URL_LEN
           \/ hyperlink.tip.chars > MAX_PARAMETER_LEN
        THEN [res |-> "MaxUrlLengthExceeded"]
        ELSE [res |-> "Ok", hyperlink |-> hyperlink]

\* Hyperlink::new: the Result is Ok(hyperlink) or the error.
HyperlinkNew(url, text, tip) ==
    LET hyperlink == initialize(url, text) @@ [tip |-> tip]
    IN  IF \/ hyperlink.url.chars > MAX_URL_LEN
           \/ hyperlink.location.chars > MAX_URL_LEN
           \/ hyperlink.tip.chars > MAX_PARAMETER_LEN
        THEN [res |-> "MaxUrlLengthExceeded"]
        ELSE [res |-> "Ok", hyperlink |-> hyperlink]

store_url(w, row, col, url, text, tip, format) ==
    LET new == HyperlinkNew(url, text, tip)
        written == write_string_with_format(
                       w, row, col, new.hyperlink.text,
                       IF format.some THEN format.val ELSE HyperlinkFormat)
    IN  IF new.res # "Ok"
        THEN Ret(w, new.res)
        ELSE IF written.res # "Ok"
        THEN written
        ELSE Ret([written.ws EXCEPT !.hyperlinks =
                     MapInsert(@, <<row, col>>, new.hyperlink)],
                 "Ok")

write_url(w, row, col, string) == store_url(w, row, col, string, EmptyStr, EmptyStr, None)

write_url_with_text(w, row, col, string, text) ==
    store_url(w, row, col, string, text, EmptyStr, None)

write_url_with_format(w, row, col, string, format) ==
    store_url(w, row, col, string, EmptyStr, EmptyStr, Some(format))

write_url_with_options(w, row, col, string, text, tip, format) ==
    store_url(w, row, col, string, text, tip, format)

UrlArgs(row, col, url, text, tip, format) ==
    [row |-> row, col |-> col, url |-> url, text |-> text, tip |-> tip,
     format |-> format]

WriteUrl(row, col, url) ==
    Call("write_url", UrlArgs(row, col, url, EmptyStr, EmptyStr, None),
         write_url(WS, row, col, url))

WriteUrlWithText(row, col, url, text) ==
    Call("write_url", UrlArgs(row, col, url, text, EmptyStr, None),
         write_url_with_text(WS, row, col, url, text))

WriteUrlWithFormat(row, col, url, format) ==
    Call("write_url", UrlArgs(row, col, url, EmptyStr, EmptyStr, Some(format)),
         write_url_with_format(WS, row, col, url, format))

WriteUrlWithOptions(row, col, url, text, tip, format) ==
    Call("write_url", UrlArgs(row, col, url, text, tip, format),
         write_url_with_options(WS, row, col, url, text, tip, format))


\* ------------------------------------------------------------------------
\* Hyperlink writes: urls of every kind, at and around the length limits,
\* in one cell inside the sheet and one outside it.
\* ------------------------------------------------------------------------
UrlCells == {<<0, 0>>, <<ROW_MAX, 0>>}

AtLimit == MAX_URL_LEN - 7

ShortUrls ==
    {Url(s, "short", 10, 0, FALSE, None, FALSE) :
        s \in {"http://", "ftps://", "mailto:", "internal:", "file:///", "gopher://", ""}}

LimitUrls ==
    {Url("http://", "at limit", AtLimit, 0, FALSE, None, FALSE),
     Url("http://", "over limit", AtLimit + 1, 0, FALSE, None, FALSE),
     Url("http://", "long anchor", 10, 0, FALSE, Some(AtLimit), FALSE),
     Url("http://", "anchor over limit", 10, 0, FALSE, Some(MAX_URL_LEN + 1), FALSE),
     Url("http://", "spaces", 1000, 400, FALSE, None, FALSE),
     Url("http://", "spaces and %20", 1000, 400, TRUE, None, FALSE),
     Url("file://", "local over limit", AtLimit + 2, 0, FALSE, None, FALSE),
     Url("file://", "remote over limit", AtLimit + 2, 0, FALSE, None, TRUE),
     Url("internal:", "location at limit", AtLimit - 2, 0, FALSE, None, FALSE),
     Url("mailto:", "anchor kept", 10, 0, FALSE, Some(AtLimit), FALSE),
     Url("gopher://", "unknown over limit", AtLimit, 0, FALSE, None, FALSE)}

Tips == {EmptyStr, Str(<<"tip">>, MAX_PARAMETER_LEN), Str(<<"long tip">>, MAX_PARAMETER_LEN + 1)}

NextUrl ==
    \E cell \in UrlCells :
        \/ \E url \in ShortUrls \cup LimitUrls : WriteUrl(cell[1], cell[2], url)
        \/ \E url \in ShortUrls, text \in {ShortString, TooLongString} :
               WriteUrlWithText(cell[1], cell[2], url, text)
        \/ \E url \in ShortUrls : WriteUrlWithFormat(cell[1], cell[2], url, Bold)
        \/ \E url \in LimitUrls, tip \in Tips :
               WriteUrlWithOptions(cell[1], cell[2], url, ShortString, tip, None)

SpecUrl == Init /\ [][NextUrl]_vars

IsUrlWrite == last.op = "write_url"

\* C5 (as stated): a url whose prefix is none of http://, https://, ftp://,
\* ftps://, mailto:, internal:, file:// is rejected with UnknownUrlType.
C5_UnknownUrlTypeIsRejected ==
    (IsUrlWrite /\ last.args.url.scheme \in {"gopher://", ""})
        => last.res = "UnknownUrlType"

TargetChars(url) ==
    LET cut == IsWebUrl(url) \/ url.scheme \in {"file://", "file:///"}
        local == url.scheme \in {"file://", "file:///"} /\ ~url.remote
        weight == IF url.pct THEN 1 ELSE 3
    IN  (IF local THEN 0 ELSE SchemeChars[url.scheme])
            + url.plain + weight * url.special
            + (IF cut \/ ~url.anchor.some THEN 0 ELSE 1 + url.anchor.val)

\* The location that is stored for a url: what follows the first "#" of a
\* web or file link, what follows internal: of an internal link.
LocationChars(url) ==
    IF url.scheme = "internal:" THEN RestChars(url)
    ELSE IF (IsWebUrl(url) \/ url.scheme \in {"file://", "file:///"}) /\ url.anchor.some
    THEN url.anchor.val
    ELSE 0

FormulaCells == {<<0, 0>>, <<1, 1>>, <<ROW_MAX, 0>>}

Formulas ==
    {<<"=", "A1">>,
     <<"=", "UNIQUE", "(", "A1", ")">>,
     <<"=", "SORT", "(", "A1", ")">>,
     <<"_xlfn.", "UNIQUE", "(", "A1", ")">>,
     <<"{", "=", "XLOOKUP", "(", "A1", ")", "}">>,
     <<"=", "x", "UNIQUE", "(", "A1", ")">>,
     <<"=", "COT", "(", "A1", ")">>,
     <<"=", "COT", "(", "FILTER", "(", "A1", ")", ")">>}

NextFormulaCell ==
    \/ \E cell \in FormulaCells, formula \in Formulas :
           WriteFormula(cell[1], cell[2], formula)
    \/ \E cell \in FormulaCells :
           WriteFormulaWithFormat(cell[1], cell[2], <<"=", "UNIQUE", "(", "A1", ")">>, Bold)
    \/ \E result \in {"", "0"} : SetFormulaResultDefault(result)
    \/ \E enable \in BOOLEAN : UseFutureFunctions(enable)

SpecFormulaCell == Init /\ [][NextFormulaCell]_vars

\* A formula write of a dynamic-array function call to a cell in the sheet.
IsDynamicWrite ==
    /\ last.op = "write_formula"
    /\ InRange(last.args.row, last.args.col)
    /\ \E i \in 1..Len(last.args.formula) :
           /\ last.args.formula[i] \in XLFN \cup XLWS
           /\ i < Len(last.args.formula)
           /\ last.args.formula[i + 1] = "("
           /\ (i = 1 \/ last.args.formula[i - 1] \in NonWordEnd)

\* The cell is a single-cell dynamic array formula with the cached result.
PromotedWith(result) ==
    /\ last.res = "Ok"
    /\ HasCell(last.args)
    /\ CellAt(last.args).type = "ArrayFormula"
    /\ CellAt(last.args).range =
           <<[col |-> col_to_name(last.args.col), row |-> last.args.row + 1]>>
    /\ \E i \in 1..Len(CellAt(last.args).formula) :
           CellAt(last.args).formula[i] = "_xlfn."
    /\ CellAt(last.args).result = result
    /\ CellAt(last.args).is_dynamic
    /\ \E i \in 1..Len(write_data_table(WS)) :
           /\ write_data_table(WS)[i].row = last.args.row
           /\ write_data_table(WS)[i].col = last.args.col
           /\ write_data_table(WS)[i].cm
    /\ has_dynamic_arrays

\* C8 (as stated): write_formula with a formula that calls a dynamic-array
\* function stores a single-cell array formula at the cell: its ref is that
\* cell, its body has the _xlfn. prefix, its cached result is "0", it is
\* dynamic (written with cm="1") and the dynamic-array flag is set.
C8_PromotionWithResultZero == IsDynamicWrite => PromotedWith("0")

\* C8 (amended): the same, with the cached result being the default formula
\* result of the worksheet at the time of the write, which is "0" unless
\* set_formula_result_default has changed it.
C8_PromotionWithDefaultResult == IsDynamicWrite => PromotedWith(default_result)

\* A dynamic formula was written after the default result had been changed.
C8_Witness ==
    /\ IsDynamicWrite
    /\ last.res = "Ok"
    /\ default_result # "0"
    /\ CellAt(last.args).type = "ArrayFormula"


\* ------------------------------------------------------------------------
\* The formula preprocessor on its own: prepare_formula is applied to a
\* formula and then to its own result.
\* ------------------------------------------------------------------------
FormulaTokens == {"{", "=", "}", "(", "x", "UNIQUE", "SORT", "COT", "_xlfn."}

FormulaArgs == UNION {[1..n -> FormulaTokens] : n \in 0..MaxFormulaLen}

InitPrepare ==
    /\ table = NewWorksheet.table
    /\ dimensions = NewWorksheet.dimensions
    /\ changed_rows = NewWorksheet.changed_rows
    /\ changed_cols = NewWorksheet.changed_cols
    /\ xf_formats = NewWorksheet.xf_formats
    /\ xf_indices = NewWorksheet.xf_indices
    /\ global_xf_indices = NewWorksheet.global_xf_indices
    /\ default_result = NewWorksheet.default_result
    /\ use_future_functions = NewWorksheet.use_future_functions
    /\ has_dynamic_arrays = NewWorksheet.has_dynamic_arrays
    /\ uses_string_table = NewWorksheet.uses_string_table
    /\ has_hyperlink_style = NewWorksheet.has_hyperlink_style
    /\ merged_ranges = NewWorksheet.merged_ranges
    /\ merged_cells = NewWorksheet.merged_cells
    /\ hyperlinks = NewWorksheet.hyperlinks
    /\ autofilter_defined_name = NewWorksheet.autofilter_defined_name
    /\ autofilter_area = NewWorksheet.autofilter_area
    /\ filter_conditions = NewWorksheet.filter_conditions
    /\ horizontal_breaks = NewWorksheet.horizontal_breaks
    /\ vertical_breaks = NewWorksheet.vertical_breaks
    /\ active = NewWorksheet.active
    /\ selected = NewWorksheet.selected
    /\ hidden = NewWorksheet.hidden
    /\ first_sheet = NewWorksheet.first_sheet
    /\ images = NewWorksheet.images
    /\ drawings = NewWorksheet.drawings
    /\ drawing_relationships = NewWorksheet.drawing_relationships
    /\ drawing_object_relationships = NewWorksheet.drawing_object_relationships
    /\ hyperlink_relationships = NewWorksheet.hyperlink_relationships
    /\ rel_count = NewWorksheet.rel_count
    /\ has_drawing_object_linkage = NewWorksheet.has_drawing_object_linkage
    /\ filter_automatic_off = NewWorksheet.filter_automatic_off
    /\ last = NoCall
    /\ nops = 0
    /\ formula_arg \in FormulaArgs
    /\ expand_arg \in BOOLEAN
    /\ prepared = <<>>
    /\ writing = "worksheet"
    /\ loop_ref_id = 1
    /\ r_ids = <<>>

\* prepare_formula(formula_arg, expand_arg), then prepare_formula of that.
PrepareFormula ==
    /\ Len(prepared) < 2
    /\ prepared' = Append(prepared,
                          prepare_formula(IF prepared = <<>>
                                          THEN formula_arg
                                          ELSE prepared[Len(prepared)],
                                          expand_arg))
    /\ UNCHANGED <<wsvars, last, nops, formula_arg, expand_arg, xvars>>

NextPrepare == PrepareFormula

SpecPrepare == InitPrepare /\ [][NextPrepare]_vars

\* C9 (as stated): for every formula f and either setting of expand_future,
\* prepare(prepare(f)) = prepare(f).
C9_PrepareIsIdempotent == Len(prepared) = 2 => prepared[2] = prepared[1]

\* Nothing is left at the ends of the formula that prepare_formula removes.
NoOuterMarks(formula) ==
    \/ formula = <<>>
    \/ /\ formula[1] \notin {"{", "="}
       /\ formula[Len(formula)] # "}"

\* C9 (amended): prepare(prepare(f)) = prepare(f) for every formula f, and
\* either setting of expand_future, of which prepare(f) neither starts with
\* "{" or "=" nor ends with "}": each pass removes one "{" and one "=" from
\* the start and one "}" from the end.
C9_PrepareIsIdempotentOnceStripped ==
    (Len(prepared) = 2 /\ NoOuterMarks(prepared[1])) => prepared[2] = prepared[1]

\* The first pass put a prefix in front of a function and the second pass
\* left its result as it was.
C9_Witness ==
    /\ Len(prepared) = 2
    /\ \A i \in 1..Len(formula_arg) : formula_arg[i] # "_xlfn."
    /\ \E i \in 1..Len(prepared[1]) : prepared[1][i] = "_xlfn."
    /\ prepared[2] = prepared[1]


\* ------------------------------------------------------------------------
\* Autofilters.  A FilterCondition is given by the fields the worksheet
\* reads: whether it is a list filter, the list of values to match, whether
\* blanks are matched, the custom criteria and how two of them combine.
\* A FilterData is a value of the list or a custom criterion.
\* ------------------------------------------------------------------------
FilterData(data_type, string, number, criteria) ==
    [data_type |-> data_type, string |-> string, number |-> number,
     criteria |-> criteria]

FilterCondition(is_list_filter, list, should_match_blanks, custom1, custom2, apply_logical_or) ==
    [is_list_filter |-> is_list_filter, list |-> list,
     should_match_blanks |-> should_match_blanks, custom1 |-> custom1,
     custom2 |-> custom2, apply_logical_or |-> apply_logical_or]

\* autofilter leaving the stored filter conditions as they are.
autofilter_keeps_conditions(w, first_row, first_col, last_row, last_col) ==
    IF \/ ~check_dimensions_only(first_row, first_col)
       \/ ~check_dimensions_only(last_row, last_col)
    THEN Ret(w, "RowColumnLimitError")
    ELSE IF first_row > last_row \/ first_col > last_col
    THEN Ret(w, "RowColumnOrderError")
    ELSE Ret([w EXCEPT
                 !.autofilter_defined_name =
                     [in_use |-> TRUE, first_row |-> first_row, first_col |-> first_col,
                      last_row |-> last_row, last_col |-> last_col],
                 !.autofilter_area = cell_range(first_row, first_col, last_row, last_col)],
             "Ok")

autofilter(w, first_row, first_col, last_row, last_col) ==
    IF \/ ~check_dimensions_only(first_row, first_col)
       \/ ~check_dimensions_only(last_row, last_col)
    THEN Ret(w, "RowColumnLimitError")
    ELSE IF first_row > last_row \/ first_col > last_col
    THEN Ret(w, "RowColumnOrderError")
    ELSE Ret([w EXCEPT
                 !.autofilter_defined_name =
                     [in_use |-> TRUE, first_row |-> first_row, first_col |-> first_col,
                      last_row |-> last_row, last_col |-> last_col],
                 !.autofilter_area = cell_range(first_row, first_col, last_row, last_col),
                 !.filter_conditions = <<>>],
             "Ok")

\* filter_column without the check of the column against the range.
filter_column_any_column(w, col, filter_condition) ==
    IF col >= COL_MAX
    THEN Ret(w, "RowColumnLimitError")
    ELSE IF ~w.autofilter_defined_name.in_use
    THEN Ret(w, "ParameterError")
    ELSE IF /\ filter_condition.list = <<>>
            /\ ~filter_condition.custom1.some
            /\ ~filter_condition.should_match_blanks
    THEN Ret(w, "ParameterError")
    ELSE Ret([w EXCEPT !.filter_conditions = MapInsert(@, col, filter_condition)], "Ok")

filter_column(w, col, filter_condition) ==
    IF col >= COL_MAX
    THEN Ret(w, "RowColumnLimitError")
    ELSE IF ~w.autofilter_defined_name.in_use
    THEN Ret(w, "ParameterError")
    ELSE IF \/ col < w.autofilter_defined_name.first_col
            \/ col > w.autofilter_defined_name.last_col
    THEN Ret(w, "ParameterError")
    ELSE IF /\ filter_condition.list = <<>>
            /\ ~filter_condition.custom1.some
            /\ ~filter_condition.should_match_blanks
    THEN Ret(w, "ParameterError")
    ELSE Ret([w EXCEPT !.filter_conditions = MapInsert(@, col, filter_condition)], "Ok")

Autofilter(first_row, first_col, last_row, last_col) ==
    Call("autofilter",
         [first_row |-> first_row, first_col |-> first_col,
          last_row |-> last_row, last_col |-> last_col],
         autofilter(WS, first_row, first_col, last_row, last_col))

FilterColumn(col, filter_condition) ==
    Call("filter_column", [col |-> col, filter_condition |-> filter_condition],
         filter_column(WS, col, filter_condition))

\* Ranges in order, out of order and over the limits; columns before, in
\* and after them; conditions with nothing, and with each one thing, set.
FilterRows == {0, 2, ROW_MAX}
FilterRangeCols == {1, 2, COL_MAX}
FilterCols == {0, 1, 2, 3, COL_MAX}

FilterConditions ==
    {FilterCondition(FALSE, <<>>, FALSE, None, None, FALSE),
     FilterCondition(TRUE, <<FilterData("String", ShortString, Finite(0), "EqualTo")>>,
                     FALSE, None, None, FALSE),
     FilterCondition(FALSE, <<>>, FALSE,
                     Some(FilterData("Number", ShortString, Finite(3), "GreaterThan")),
                     None, FALSE),
     FilterCondition(TRUE, <<>>, TRUE, None, None, FALSE)}

NextFilter ==
    \/ \E first_row, last_row \in FilterRows, first_col, last_col \in FilterRangeCols :
           Autofilter(first_row, first_col, last_row, last_col)
    \/ \E col \in FilterCols, filter_condition \in FilterConditions :
           FilterColumn(col, filter_condition)

SpecFilter == Init /\ [][NextFilter]_vars

\* The condition has a value to match, a criterion or the match of blanks.
NonEmptyCondition(c) == Len(c.list) > 0 \/ c.custom1.some \/ c.should_match_blanks

\* C10: filter_column(col, condition) stores the condition, and returns Ok,
\* exactly when an autofilter range is set, col is within the first and the
\* last column of the range and the condition is not empty; otherwise it
\* returns RowColumnLimitError for col >= 16384 and ParameterError for a
\* smaller col, and the stored conditions are as they were.
C10_FilterColumnStoresOrFails ==
    [][last'.op = "filter_column"
       => LET col == last'.args.col
              c == last'.args.filter_condition
              accepted == /\ autofilter_defined_name.in_use
                          /\ autofilter_defined_name.first_col <= col
                          /\ col <= autofilter_defined_name.last_col
                          /\ NonEmptyCondition(c)
          IN  /\ accepted <=> last'.res = "Ok"
              /\ accepted =>
                     /\ col \in DOMAIN filter_conditions'
                     /\ filter_conditions'[col] = c
                     /\ \A k \in DOMAIN filter_conditions' \ {col} :
                            /\ k \in DOMAIN filter_conditions
                            /\ filter_conditions'[k] = filter_conditions[k]
                     /\ DOMAIN filter_conditions \subseteq DOMAIN filter_conditions'
              /\ ~accepted =>
                     /\ last'.res = IF col >= COL_MAX
                                    THEN "RowColumnLimitError"
                                    ELSE "ParameterError"
                     /\ filter_conditions' = filter_conditions]_vars

\* A filter on a column after the range was refused while a condition of a
\* column of the range was stored.
C10_Witness ==
    /\ last.op = "filter_column"
    /\ last.res = "ParameterError"
    /\ autofilter_defined_name.in_use
    /\ last.args.col > autofilter_defined_name.last_col
    /\ NonEmptyCondition(last.args.filter_condition)
    /\ filter_conditions # <<>>


\* ------------------------------------------------------------------------
\* Rows hidden by the autofilter.  The text of a string is the tuple of
\* its characters.
\* ------------------------------------------------------------------------
\* str::to_lowercase, on the letters the model writes.
to_lowercase(text) ==
    [i \in 1..Len(text) |->
        IF text[i] = "A" THEN "a" ELSE IF text[i] = "B" THEN "b" ELSE text[i]]

\* str::trim.
RECURSIVE trim_start(_)
trim_start(text) ==
    IF text # <<>> /\ Head(text) = " " THEN trim_start(Tail(text)) ELSE text

RECURSIVE trim_end(_)
trim_end(text) ==
    IF text # <<>> /\ text[Len(text)] = " "
    THEN trim_end(SubSeq(text, 1, Len(text) - 1))
    ELSE text

trim(text) == trim_end(trim_start(text))

\* The code points of the characters, for the order of strings.
CodePoint ==
    (" " :> 32) @@ ("0" :> 48) @@ ("1" :> 49) @@ ("A" :> 65)
        @@ ("B" :> 66) @@ ("a" :> 97) @@ ("b" :> 98)

\* a < b for strings.
RECURSIVE str_lt(_, _)
str_lt(a, b) ==
    IF b = <<>> THEN FALSE
    ELSE IF a = <<>> THEN TRUE
    ELSE IF Head(a) # Head(b) THEN CodePoint[Head(a)] < CodePoint[Head(b)]
    ELSE str_lt(Tail(a), Tail(b))

starts_with(a, b) == Len(b) <= Len(a) /\ SubSeq(a, 1, Len(b)) = b

ends_with(a, b) == Len(b) <= Len(a) /\ SubSeq(a, Len(a) - Len(b) + 1, Len(a)) = b

contains(a, b) ==
    \E i \in 0..(Len(a) - Len(b)) : SubSeq(a, i + 1, i + Len(b)) = b

\* == and < of f64.
f64_eq(a, b) == ~is_nan(a) /\ ~is_nan(b) /\ a = b

f64_lt(a, b) ==
    /\ ~is_nan(a)
    /\ ~is_nan(b)
    /\ IF a.kind = b.kind THEN a.val < b.val
       ELSE IF a.kind = "inf" THEN a.val < 0
       ELSE b.val > 0

row_matches_list_filter(w, row_num, col_num, filter_condition) ==
    LET has_cell_data == <<row_num, col_num>> \in DOMAIN w.table
        cell == w.table[<<row_num, col_num>>]
        cell_string == trim(to_lowercase(cell.string.text))
        list == filter_condition.list
    IN  IF ~has_cell_data
        THEN filter_condition.should_match_blanks
        ELSE IF cell.type = "String"
        THEN \/ \E i \in 1..Len(list) :
                    cell_string = trim(to_lowercase(list[i].string.text))
             \/ filter_condition.should_match_blanks /\ cell_string = <<>>
        ELSE IF cell.type = "Number"
        THEN \E i \in 1..Len(list) :
                 list[i].data_type = "Number" /\ f64_eq(cell.number, list[i].number)
        ELSE IF cell.type = "Blank"
        THEN filter_condition.should_match_blanks
        ELSE FALSE

row_matches_custom_filter(w, row_num, col_num, filter) ==
    LET has_cell_data == <<row_num, col_num>> \in DOMAIN w.table
        cell == w.table[<<row_num, col_num>>]
        cell_string == trim(to_lowercase(cell.string.text))
        filter_string == trim(to_lowercase(filter.string.text))
        number == cell.number
        non_blanks == filter.criteria = "NotEqualTo" /\ filter.string.text = <<" ">>
    IN  IF ~has_cell_data
        THEN FALSE
        ELSE IF cell.type = "String"
        THEN CASE filter.criteria = "EqualTo" -> cell_string = filter_string
               [] filter.criteria = "NotEqualTo" -> cell_string # filter_string
               [] filter.criteria = "LessThan" -> str_lt(cell_string, filter_string)
               [] filter.criteria = "GreaterThan" -> str_lt(filter_string, cell_string)
               [] filter.criteria = "LessThanOrEqualTo" -> ~str_lt(filter_string, cell_string)
               [] filter.criteria = "GreaterThanOrEqualTo" -> ~str_lt(cell_string, filter_string)
               [] filter.criteria = "EndsWith" -> ends_with(cell_string, filter_string)
               [] filter.criteria = "DoesNotEndWith" -> ~ends_with(cell_string, filter_string)
               [] filter.criteria = "BeginsWith" -> starts_with(cell_string, filter_string)
               [] filter.criteria = "DoesNotBeginWith" -> ~starts_with(cell_string, filter_string)
               [] filter.criteria = "Contains" -> contains(cell_string, filter_string)
               [] filter.criteria = "DoesNotContain" -> ~contains(cell_string, filter_string)
        ELSE IF cell.type = "Number"
        THEN /\ filter.data_type = "Number"
             /\ CASE filter.criteria = "EqualTo" -> f64_eq(number, filter.number)
                  [] filter.criteria = "LessThan" -> f64_lt(number, filter.number)
                  [] filter.criteria = "NotEqualTo" -> ~f64_eq(number, filter.number)
                  [] filter.criteria = "GreaterThan" -> f64_lt(filter.number, number)
                  [] filter.criteria = "LessThanOrEqualTo" ->
                         f64_lt(number, filter.number) \/ f64_eq(number, filter.number)
                  [] filter.criteria = "GreaterThanOrEqualTo" ->
                         f64_lt(filter.number, number) \/ f64_eq(number, filter.number)
                  [] OTHER -> FALSE
        ELSE IF cell.type = "Blank"
        THEN FALSE
        ELSE non_blanks

row_matches_custom_filters(w, row_num, col_num, filter_condition) ==
    LET condition1 ==
            IF filter_condition.custom1.some
            THEN row_matches_custom_filter(w, row_num, col_num, filter_condition.custom1.val)
            ELSE FALSE
        condition2 ==
            row_matches_custom_filter(w, row_num, col_num, filter_condition.custom2.val)
    IN  IF ~filter_condition.custom2.some
        THEN condition1
        ELSE IF filter_condition.apply_logical_or
        THEN condition1 \/ condition2
        ELSE condition1 /\ condition2

\* The elements of a set of numbers in ascending order.
RECURSIVE SortedSeq(_)
SortedSeq(S) ==
    IF S = {}
    THEN <<>>
    ELSE LET least == CHOOSE x \in S : \A y \in S : x <= y
             most == CHOOSE x \in S : \A y \in S : y <= x
             middle == (least + most) \div 2
         IN  IF least = most
             THEN <<least>>
             ELSE SortedSeq({x \in S : x <= middle}) \o SortedSeq({x \in S : x > middle})

\* The body of the loops of hide_autofilter_rows, from the i-th of the
\* (column, row) pairs on.
RECURSIVE hide_rows(_, _, _)
hide_rows(w, pairs, i) ==
    IF i > Len(pairs)
    THEN Ret(w, "Ok")
    ELSE LET col_num == pairs[i][1]
             row_num == pairs[i][2]
             filter_condition == w.filter_conditions[col_num]
             matches == IF filter_condition.is_list_filter
                        THEN row_matches_list_filter(w, row_num, col_num, filter_condition)
                        ELSE row_matches_custom_filters(w, row_num, col_num, filter_condition)
             row_hidden == set_row_hidden(w, row_num)
         IN  IF matches
             THEN hide_rows(w, pairs, i + 1)
             ELSE IF row_hidden.res # "Ok"
             THEN Ret(row_hidden.ws, "Panic")
             ELSE hide_rows(row_hidden.ws, pairs, i + 1)

\* The (column, row) pairs in the order of the loops, the first row given.
FilterPairs(w, first_row) ==
    LET filter_columns == SortedSeq(DOMAIN w.filter_conditions)
        last_row == w.autofilter_defined_name.last_row
        nrows == IF last_row >= first_row THEN last_row - first_row + 1 ELSE 0
    IN  [i \in 1..(Len(filter_columns) * nrows) |->
            <<filter_columns[((i - 1) \div nrows) + 1], first_row + ((i - 1) % nrows)>>]

\* hide_autofilter_rows with the header row among the rows it looks at.
hide_autofilter_rows_with_header(w) ==
    IF w.filter_conditions = <<>> \/ w.filter_automatic_off
    THEN Ret(w, "Ok")
    ELSE hide_rows(w, FilterPairs(w, w.autofilter_defined_name.first_row), 1)

hide_autofilter_rows(w) ==
    IF w.filter_conditions = <<>> \/ w.filter_automatic_off
    THEN Ret(w, "Ok")
    ELSE hide_rows(w, FilterPairs(w, w.autofilter_defined_name.first_row + 1), 1)

filter_automatic_off_set(w) == [w EXCEPT !.filter_automatic_off = TRUE]


FilterAutomaticOff ==
    Call("filter_automatic_off", <<>>, Ret(filter_automatic_off_set(WS), "Ok"))

\* The save of the workbook runs hide_autofilter_rows on every worksheet;
\* it may come after as many calls as the model makes.
MaxFilterOps == MaxOps + 1

HideAutofilterRows ==
    CallUpTo(MaxFilterOps, "hide_autofilter_rows", <<>>, hide_autofilter_rows(WS))

\* The filter of non-blanks: the custom criterion != " ".
NonBlanks == FilterData("String", Str(<<" ">>, 1), Finite(0), "NotEqualTo")

HideConditions ==
    {FilterCondition(TRUE, <<FilterData("String", ShortString, Finite(0), "EqualTo")>>,
                     FALSE, None, None, FALSE),
     FilterCondition(TRUE, <<>>, TRUE, None, None, FALSE),
     FilterCondition(FALSE, <<>>, FALSE, Some(NonBlanks), None, FALSE),
     FilterCondition(FALSE, <<>>, FALSE,
                     Some(FilterData("Number", Str(<<"0">>, 1), Finite(0), "GreaterThan")),
                     None, FALSE)}

\* A header in row 0, data in rows 1 and 2 of column 0, nothing in column 1.
NextHide ==
    \/ \E row \in {1, 2}, string \in {Str(<<" ", "A">>, 2), Str(<<" ">>, 1)} :
           WriteString(row, 0, string)
    \/ \E row \in {1, 2} : WriteNumber(row, 0, Finite(1))
    \/ \E row \in {1, 2} : WriteBlank(row, 0, Bold)
    \/ WriteFormula(1, 0, <<"=", "A1">>)
    \/ SetRowHeight(2, 30)
    \/ \E last_row \in {0, 2} : Autofilter(0, 0, last_row, 1)
    \/ \E filter_condition \in HideConditions : FilterColumn(0, filter_condition)
    \/ FilterColumn(1, FilterCondition(FALSE, <<>>, FALSE, Some(NonBlanks), None, FALSE))
    \/ FilterAutomaticOff
    \/ HideAutofilterRows

SpecHide == Init /\ [][NextHide]_vars

\* The row has an entry that is hidden.
IsHidden(rows, row) == row \in DOMAIN rows /\ rows[row].hidden

\* The cell of the row fails the condition of a filtered column.
FailsFilter(row) ==
    \E col \in DOMAIN filter_conditions :
        IF filter_conditions[col].is_list_filter
        THEN ~row_matches_list_filter(WS, row, col, filter_conditions[col])
        ELSE ~row_matches_custom_filters(WS, row, col, filter_conditions[col])

\* The rows the filter is to hide.
FilterHides(row) ==
    /\ filter_conditions # <<>>
    /\ ~filter_automatic_off
    /\ autofilter_defined_name.first_row < row
    /\ row <= autofilter_defined_name.last_row
    /\ FailsFilter(row)

\* C11: unless filter_automatic_off was called, and with a condition set,
\* the preparation of the save hides every row below the header row and in
\* the row range of the autofilter whose cell fails the condition of a
\* filtered column, with a new row entry where there was none; it hides no
\* other row, neither the header row nor a row outside the range, changes
\* nothing else of a row, and hides no row after filter_automatic_off.
C11_FilterHidesFailingRows ==
    [][last'.op = "hide_autofilter_rows"
       => /\ last'.res = "Ok"
          /\ \A row \in 0..(autofilter_defined_name.last_row + 1) :
                 IsHidden(changed_rows', row)
                     <=> (IsHidden(changed_rows, row) \/ FilterHides(row))
          /\ DOMAIN changed_rows' =
                 DOMAIN changed_rows
                     \cup {row \in 0..autofilter_defined_name.last_row : FilterHides(row)}
          /\ \A row \in DOMAIN changed_rows :
                 /\ changed_rows'[row].height = changed_rows[row].height
                 /\ changed_rows'[row].xf_index = changed_rows[row].xf_index
          /\ filter_automatic_off => changed_rows' = changed_rows
          /\ table' = table]_vars

\* The filter hid row 2, which had no entry, and neither row 1, whose cell
\* matches, nor the header row, whose cell does not.
C11_Witness ==
    /\ last.op = "hide_autofilter_rows"
    /\ autofilter_defined_name.in_use
    /\ autofilter_defined_name.last_row = 2
    /\ FailsFilter(0)
    /\ ~IsHidden(changed_rows, 0)
    /\ ~FailsFilter(1)
    /\ ~IsHidden(changed_rows, 1)
    /\ IsHidden(changed_rows, 2)
    /\ changed_rows[2].height = DEFAULT_ROW_HEIGHT

\* C12: under the custom filter != " " a row matches if and only if its
\* cell in the filtered column is not blank: a blank or missing cell does
\* not match, a cell with a string, number, boolean, formula or date does.
\* (A string of nothing but spaces is left out: it counts as either.)
C12_NonBlanksMatchesValues ==
    \A row \in 0..2 :
        (<<row, 0>> \in DOMAIN table /\ table[<<row, 0>>].type = "String"
            => trim(table[<<row, 0>>].string.text) # <<>>)
        => (row_matches_custom_filters(
                WS, row, 0,
                FilterCondition(FALSE, <<>>, FALSE, Some(NonBlanks), None, FALSE))
            <=> (<<row, 0>> \in DOMAIN table /\ table[<<row, 0>>].type # "Blank"))


\* ------------------------------------------------------------------------
\* Column widths, images and the position of drawing objects.  Widths are
\* in hundredths of a character, heights in points, sizes and offsets of
\* objects in pixels.
\* ------------------------------------------------------------------------
\* store_column_width with the autofit width always stored.
store_column_width_always(w, col, width, autofit) ==
    LET capped == IF width > 25500 THEN 25500 ELSE width
        options == IF col \in DOMAIN w.changed_cols
                   THEN [w.changed_cols[col] EXCEPT !.width = capped, !.autofit = autofit]
                   ELSE ColOptions(capped, 0, FALSE, autofit)
    IN  [w EXCEPT !.changed_cols = MapInsert(@, col, options)]

store_column_width(w, col, width, autofit) ==
    LET capped == IF width > 25500 THEN 25500 ELSE width
        old == w.changed_cols[col]
        options ==
            IF col \in DOMAIN w.changed_cols
            THEN IF autofit /\ ~old.autofit
                 THEN IF capped > old.width
                      THEN [old EXCEPT !.width = capped, !.autofit = TRUE]
                      ELSE old
                 ELSE [old EXCEPT !.width = capped, !.autofit = autofit]
            ELSE ColOptions(capped, 0, FALSE, autofit)
    IN  [w EXCEPT !.changed_cols = MapInsert(@, col, options)]

set_column_width(w, col, width) ==
    IF width = 0
    THEN set_column_hidden(w, col)
    ELSE IF col >= COL_MAX
    THEN Ret(w, "RowColumnLimitError")
    ELSE Ret(store_column_width(w, col, width, FALSE), "Ok")

\* An Image, by what the worksheet reads of it.
Image(hash, x_offset, y_offset, width_scaled, height_scaled, object_movement) ==
    [hash |-> hash, x_offset |-> x_offset, y_offset |-> y_offset,
     width_scaled |-> width_scaled, height_scaled |-> height_scaled,
     object_movement |-> object_movement]

insert_image_with_offset(w, row, col, image, x_offset, y_offset) ==
    IF ~check_dimensions_only(row, col)
    THEN Ret(w, "RowColumnLimitError")
    ELSE Ret([w EXCEPT !.images =
                 MapInsert(@, <<row, col>>,
                           [image EXCEPT !.x_offset = x_offset, !.y_offset = y_offset])],
             "Ok")

insert_image(w, row, col, image) == insert_image_with_offset(w, row, col, image, 0, 0)

column_pixel_width(w, col, position) ==
    IF col \in DOMAIN w.changed_cols
    THEN LET pixel_width == w.changed_cols[col].width
         IN  IF w.changed_cols[col].hidden /\ position # "MoveAndSizeWithCellsAfter"
             THEN 0
             ELSE IF pixel_width < 100
             THEN (pixel_width * 12 + 50) \div 100
             ELSE ((pixel_width * 7 + 50) \div 100) + 5
    ELSE 64

row_pixel_height(w, row, position) ==
    IF row \in DOMAIN w.changed_rows
    THEN IF w.changed_rows[row].hidden /\ position # "MoveAndSizeWithCellsAfter"
         THEN 0
         ELSE (w.changed_rows[row].height * 4) \div 3
    ELSE 20

\* No column from col on has options of its own, so that each is 64 wide.
DefaultFrom(w, col) == \A c \in DOMAIN w.changed_cols : c < col

\* The sum of the sizes of a finite map of sizes.
RECURSIVE PixelSum(_)
PixelSum(sizes) ==
    IF DOMAIN sizes = {}
    THEN 0
    ELSE LET i == CHOOSE x \in DOMAIN sizes : TRUE
         IN  sizes[i] + PixelSum([j \in DOMAIN sizes \ {i} |-> sizes[j]])

\* The loops of position_object_pixels: the widths of the columns before
\* col, and the heights of the rows before row.  The columns and rows
\* without options of their own are summed in one step, 64 or 20 pixels
\* each.
columns_before(w, col, position) ==
    LET own == {c \in DOMAIN w.changed_cols : c < col}
    IN  64 * (col - Cardinality(own))
            + PixelSum([c \in own |-> column_pixel_width(w, c, position)])

rows_before(w, row, position) ==
    LET own == {r \in DOMAIN w.changed_rows : r < row}
    IN  20 * (row - Cardinality(own))
            + PixelSum([r \in own |-> row_pixel_height(w, r, position)])

\* ColNum is a u16: u16::MAX + 1.
U16 == 65536

\* The loops that move the start or end cell forward until the offset is
\* within it.  Over a run of default columns the loop is taken in one step:
\* x \div 64 columns forward.  `col_start += 1` on u16::MAX overflows: the
\* wrapping build goes on from column 0, and overflow records that the
\* checked build panics there.
RECURSIVE adjust_col(_, _, _, _)
adjust_col(w, col, x, position) ==
    IF DefaultFrom(w, col)
    THEN IF col + (x \div 64) >= U16
         THEN [adjust_col(w, 0, x - (U16 - col) * 64, position) EXCEPT !.overflow = TRUE]
         ELSE [index |-> col + (x \div 64), offset |-> x % 64, overflow |-> FALSE]
    ELSE IF x >= column_pixel_width(w, col, position)
    THEN adjust_col(w, col + 1, x - column_pixel_width(w, col, position), position)
    ELSE [index |-> col, offset |-> x, overflow |-> FALSE]

RECURSIVE adjust_row(_, _, _, _)
adjust_row(w, row, y, position) ==
    IF y >= row_pixel_height(w, row, position)
    THEN adjust_row(w, row + 1, y - row_pixel_height(w, row, position), position)
    ELSE [index |-> row, offset |-> y]

DrawingCoordinates(col, row, col_offset, row_offset) ==
    [col |-> col, row |-> row, col_offset |-> col_offset, row_offset |-> row_offset]

\* The DrawingInfo of the wrapping build.
position_object_pixels(w, row, col, object) ==
    LET position == object.object_movement
        x_abs == columns_before(w, col, position) + object.x_offset
        y_abs == rows_before(w, row, position) + object.y_offset
        col_start == adjust_col(w, col, object.x_offset, position)
        row_start == adjust_row(w, row, object.y_offset, position)
        col_end == adjust_col(w, col_start.index,
                              object.width_scaled + col_start.offset, position)
        row_end == adjust_row(w, row_start.index,
                              object.height_scaled + row_start.offset, position)
    IN  [from |-> DrawingCoordinates(col_start.index, row_start.index,
                                     col_start.offset, row_start.offset),
         to |-> DrawingCoordinates(col_end.index, row_end.index,
                                   col_end.offset, row_end.offset),
         col_absolute |-> x_abs,
         row_absolute |-> y_abs,
         width |-> object.width_scaled,
         height |-> object.height_scaled,
         object_movement |-> position,
         rel_id |-> 0]

\* Whether position_object_pixels overflows col_start or col_end, where the
\* checked build panics.
position_object_pixels_overflows(w, row, col, object) ==
    LET position == object.object_movement
        col_start == adjust_col(w, col, object.x_offset, position)
        col_end == adjust_col(w, col_start.index,
                              object.width_scaled + col_start.offset, position)
    IN  col_start.overflow \/ col_end.overflow

\* ------------------------------------------------------------------------
\* Placement of images: calls of the column, row and image setters.
\* ------------------------------------------------------------------------
SetColumnWidth(col, width) ==
    Call("set_column_width", [col |-> col, width |-> width],
         set_column_width(WS, col, width))

SetRowHidden(row) ==
    Call("set_row_hidden", [row |-> row], set_row_hidden(WS, row))

InsertImage(row, col, image) ==
    Call("insert_image", [row |-> row, col |-> col, image |-> image],
         insert_image(WS, row, col, image))

InsertImageWithOffset(row, col, image, x_offset, y_offset) ==
    Call("insert_image_with_offset",
         [row |-> row, col |-> col, image |-> image,
          x_offset |-> x_offset, y_offset |-> y_offset],
         insert_image_with_offset(WS, row, col, image, x_offset, y_offset))

\* Two images, the second moving with hidden cells as well.
Images ==
    {Image(1, 0, 0, 32, 32, "MoveAndSizeWithCells"),
     Image(2, 0, 0, 200, 100, "MoveAndSizeWithCellsAfter")}

\* Offsets within the cell, beyond it, and of u16::MAX + 1 default columns.
XOffsets == {0, 70, U16 * 64}
YOffsets == {0, 25}

\* Widths of half a character, of twenty characters, and the width 0 that
\* hides the column.
NextPlace ==
    \/ \E col \in {0, 1}, width \in {0, 50, 2000} : SetColumnWidth(col, width)
    \/ SetColumnHidden(1)
    \/ \E height \in {0, 30} : SetRowHeight(0, height)
    \/ SetRowHidden(1)
    \/ \E image \in Images : InsertImage(0, 0, image)
    \/ \E image \in Images, x_offset \in XOffsets, y_offset \in YOffsets :
           InsertImageWithOffset(2, 2, image, x_offset, y_offset)

SpecPlace == Init /\ [][NextPlace]_vars

\* The start cell and the residual offsets of the image give its absolute
\* position back.
KeepsAbsolutePosition(cell) ==
    LET position == images[cell].object_movement
        info == position_object_pixels(WS, cell[1], cell[2], images[cell])
    IN  /\ columns_before(WS, info.from.col, position) + info.from.col_offset
               = info.col_absolute
        /\ rows_before(WS, info.from.row, position) + info.from.row_offset
               = info.row_absolute

\* C18: for every placed object, and whatever columns and rows have a
\* width or height of their own or are hidden, the placement runs to its
\* end and the pixel widths of the columns before col_start plus the
\* residual offset x1 are the absolute x position of the object, the widths
\* of the columns before its anchor column plus its x_offset; likewise for
\* the rows with y1 and the absolute y position.
C18_PlacementKeepsAbsolutePosition ==
    \A cell \in DOMAIN images :
        /\ ~position_object_pixels_overflows(WS, cell[1], cell[2], images[cell])
        /\ KeepsAbsolutePosition(cell)

\* ------------------------------------------------------------------------
\* The shared string table and its <sst> element.
\* ------------------------------------------------------------------------
SharedStringsTableNew == [count |-> 0, unique_count |-> 0, strings |-> <<>>]

\* intern(s): the index of the string, a new one in insertion order if the
\* table does not have it, and one more occurrence counted.
shared_string_index(string_table, string) ==
    IF string \in DOMAIN string_table.strings
    THEN [string_table |-> [string_table EXCEPT !.count = @ + 1],
          index |-> string_table.strings[string]]
    ELSE [string_table |-> [count |-> string_table.count + 1,
                            unique_count |-> string_table.unique_count + 1,
                            strings |-> MapInsert(string_table.strings, string,
                                                  string_table.unique_count)],
          index |-> string_table.unique_count]

\* The string cells of write_data_table from the i-th <c> element on: the
\* table after them and the index written in each.
RECURSIVE write_string_cells(_, _, _, _)
write_string_cells(w, elements, i, string_table) ==
    IF i > Len(elements)
    THEN [string_table |-> string_table, indices |-> <<>>]
    ELSE IF elements[i].type # "String"
    THEN write_string_cells(w, elements, i + 1, string_table)
    ELSE LET string == w.table[<<elements[i].row, elements[i].col>>].string
             interned == shared_string_index(string_table, string)
             rest == write_string_cells(w, elements, i + 1, interned.string_table)
         IN  [string_table |-> rest.string_table,
              indices |-> <<interned.index>> \o rest.indices]

\* write_sst with the size of the table for both attributes.
write_sst_unique_only(string_table) ==
    [count |-> string_table.unique_count, uniqueCount |-> string_table.unique_count]

\* The attributes of <sst>.
write_sst(string_table) ==
    [count |-> string_table.count, uniqueCount |-> string_table.unique_count]

\* The <si> elements: the strings in the order of their indices.
write_sst_strings(string_table) ==
    [i \in 1..Cardinality(DOMAIN string_table.strings) |->
        CHOOSE string \in DOMAIN string_table.strings :
            string_table.strings[string] = i - 1]

\* ------------------------------------------------------------------------
\* Saving: the drawings of the images, the relationships, the sheet XML and
\* the reset after it.
\* ------------------------------------------------------------------------
\* (0.5 + dimension * 9525.0) as u32, of a whole number of pixels.
round_to_emus(dimension) == dimension * 9525

\* `*= 9525` on a u32, by the 16-bit halves of the operand: the product
\* itself, as its low 16 bits and all that is above them.
Product(pixels, factor) ==
    LET low == (pixels % U16) * factor
    IN  [hi |-> (pixels \div U16) * factor + (low \div U16), lo |-> low % U16]

\* The product as the u32 of the wrapping build holds it: its two halves.
wrapping_mul(pixels, factor) == [Product(pixels, factor) EXCEPT !.hi = @ % U16]

\* The product does not fit a u32, where the checked build panics.
mul_overflows(pixels, factor) == Product(pixels, factor).hi >= U16

position_object_emus_overflows(w, row, col, object) ==
    LET drawing_info == position_object_pixels(w, row, col, object)
    IN  \/ mul_overflows(drawing_info.col_absolute, 9525)
        \/ mul_overflows(drawing_info.row_absolute, 9525)

position_object_emus(w, row, col, object) ==
    LET drawing_info == position_object_pixels(w, row, col, object)
    IN  [drawing_info EXCEPT
            !.to.col_offset = round_to_emus(@),
            !.to.row_offset = round_to_emus(@),
            !.from.col_offset = round_to_emus(@),
            !.from.row_offset = round_to_emus(@),
            !.col_absolute = wrapping_mul(@, 9525),
            !.row_absolute = wrapping_mul(@, 9525),
            !.width = round_to_emus(@),
            !.height = round_to_emus(@)]

\* The keys of a BTreeMap of cells in its order: by row, then by column.
RECURSIVE SortedCells(_)
SortedCells(S) ==
    IF S = {}
    THEN <<>>
    ELSE LET least == CHOOSE x \in S :
                          \A y \in S : x[1] < y[1] \/ (x[1] = y[1] /\ x[2] <= y[2])
         IN  <<least>> \o SortedCells(S \ {least})

\* The loop of prepare_worksheet_images from the i-th image on.
RECURSIVE prepare_images(_, _, _, _, _)
prepare_images(w, cells, i, image_ids, rel_ids) ==
    IF i > Len(cells)
    THEN [ws |-> w, image_ids |-> image_ids]
    ELSE LET image == w.images[cells[i]]
             known == image.hash \in DOMAIN image_ids
             image_id == IF known
                         THEN image_ids[image.hash]
                         ELSE 1 + Cardinality(DOMAIN image_ids)
             linked == image.hash \in DOMAIN rel_ids
             rel_id == IF linked
                       THEN rel_ids[image.hash]
                       ELSE 1 + Cardinality(DOMAIN rel_ids)
             drawing_info == [position_object_emus(w, cells[i][1], cells[i][2], image)
                                  EXCEPT !.rel_id = rel_id]
             w1 == IF linked
                   THEN w
                   ELSE [w EXCEPT !.drawing_relationships =
                            Append(@, <<"image", <<"../media/image", image_id>>, "">>)]
             w2 == [w1 EXCEPT !.drawings = Append(@, drawing_info)]
         IN  prepare_images(w2, cells, i + 1,
                            MapInsert(image_ids, image.hash, image_id),
                            MapInsert(rel_ids, image.hash, rel_id))

prepare_worksheet_images(w, image_ids, drawing_id) ==
    LET looped == prepare_images(w, SortedCells(DOMAIN w.images), 1, image_ids, <<>>)
    IN  [ws |-> [looped.ws EXCEPT
                    !.drawing_object_relationships =
                        Append(@, <<"drawing", <<"../drawings/drawing", drawing_id>>, "">>),
                    !.has_drawing_object_linkage = TRUE],
         image_ids |-> looped.image_ids]

\* The r:id of each <hyperlink> (0: it has none) and the worksheet after
\* the element is written, from the i-th link on.
RECURSIVE write_hyperlink_from(_, _, _, _)
write_hyperlink_from(w, cells, i, ref_id) ==
    IF i > Len(cells)
    THEN [ws |-> [w EXCEPT !.rel_count = ref_id - 1], xml |-> <<>>]
    ELSE LET hyperlink == w.hyperlinks[cells[i]]
             external == hyperlink.link_type \in {"Url", "File"}
             w1 == IF external
                   THEN [w EXCEPT !.hyperlink_relationships =
                            Append(@, <<"hyperlink", hyperlink.url, "External">>)]
                   ELSE w
             rest == write_hyperlink_from(w1, cells, i + 1,
                                          IF external THEN ref_id + 1 ELSE ref_id)
         IN  [ws |-> rest.ws,
              xml |-> <<[ref |-> cells[i], id |-> IF external THEN ref_id ELSE 0]>>
                          \o rest.xml]

write_hyperlinks(w) == write_hyperlink_from(w, SortedCells(DOMAIN w.hyperlinks), 1, 1)

\* The r:id of the <drawing> element.
write_drawing(w) ==
    [ws |-> [w EXCEPT !.rel_count = (@ + 1) % U16], xml |-> (w.rel_count + 1) % U16]

\* The r:id of the <legacyDrawingHF> element.
write_legacy_drawing_hf(w) ==
    [ws |-> [w EXCEPT !.rel_count = (@ + 1) % U16], xml |-> (w.rel_count + 1) % U16]

\* The parts of the sheet XML the model has: <dimension>, the options of
\* the <row> elements, the <c> elements and the indices of the shared
\* strings in them, <mergeCells>, <hyperlinks> and <drawing> (0: none).
assemble_xml_file(w, string_table) ==
    LET strings == write_string_cells(w, write_data_table(w), 1, string_table)
        links == IF w.hyperlinks # <<>> THEN write_hyperlinks(w) ELSE [ws |-> w, xml |-> <<>>]
        drawing == IF links.ws.drawings # <<>>
                   THEN write_drawing(links.ws)
                   ELSE [ws |-> links.ws, xml |-> 0]
    IN  [ws |-> drawing.ws,
         string_table |-> strings.string_table,
         xml |-> [dimension |-> write_dimension(w),
                  rows |-> w.changed_rows,
                  sheet_data |-> write_data_table(w),
                  shared_strings |-> strings.indices,
                  merge_cells |-> write_merge_cells(w),
                  hyperlinks |-> links.xml,
                  drawing |-> drawing.xml]]

reset(w) ==
    [w EXCEPT !.rel_count = 0,
              !.drawings = <<>>,
              !.hyperlink_relationships = <<>>,
              !.drawing_object_relationships = <<>>,
              !.drawing_relationships = <<>>]

\* The save of a workbook with this worksheet alone, in the order of the
\* workbook assembler: the index table of the formats, the drawings of the
\* images, the rows the autofilter hides, the sheet XML with its
\* relationships and the shared strings, and the reset.
save(w) ==
    LET indexed == set_global_xf_indices(w, [i \in 1..Len(w.xf_formats) |-> i - 1])
        drawn == IF indexed.images # <<>>
                 THEN prepare_worksheet_images(indexed, <<>>, 1).ws
                 ELSE indexed
        filtered == hide_autofilter_rows(drawn)
        written == assemble_xml_file(filtered.ws, SharedStringsTableNew)
    IN  IF filtered.res # "Ok"
        THEN [ws |-> filtered.ws, res |-> filtered.res, out |-> <<>>]
        ELSE [ws |-> reset(written.ws),
              res |-> "Ok",
              out |-> [sheet |-> written.xml,
                       sst |-> write_sst(written.string_table),
                       si |-> write_sst_strings(written.string_table),
                       relationships |-> written.ws.hyperlink_relationships
                                             \o written.ws.drawing_object_relationships,
                       drawings |-> written.ws.drawings,
                       drawing_relationships |-> written.ws.drawing_relationships]]

MaxSaveOps == MaxOps + 2

Save ==
    /\ nops < MaxSaveOps
    /\ last.res # "Panic"
    /\ \E saved \in {save(WS)} :
           /\ Commit(saved.ws)
           /\ last' = [op |-> "save", args |-> <<>>, res |-> saved.res, out |-> saved.out]
    /\ nops' = nops + 1
    /\ UNCHANGED <<fvars, xvars>>

\* A header row 0 with a filter that row 1 fails, an image below row 1 or in
\* the header row, a string and two links.
NextSave ==
    \/ CallUpTo(MaxSaveOps, "autofilter",
                [first_row |-> 0, first_col |-> 0, last_row |-> 1, last_col |-> 0],
                autofilter(WS, 0, 0, 1, 0))
    \/ \E filter_condition \in
              {FilterCondition(TRUE, <<FilterData("String", ShortString, Finite(0), "EqualTo")>>,
                               FALSE, None, None, FALSE),
               FilterCondition(TRUE, <<>>, TRUE, None, None, FALSE)} :
           CallUpTo(MaxSaveOps, "filter_column",
                    [col |-> 0, filter_condition |-> filter_condition],
                    filter_column(WS, 0, filter_condition))
    \/ \E row \in {0, 2}, image \in Images :
           CallUpTo(MaxSaveOps, "insert_image", [row |-> row, col |-> 0, image |-> image],
                    insert_image(WS, row, 0, image))
    \/ CallUpTo(MaxSaveOps, "write_string", [row |-> 2, col |-> 0, string |-> ShortString],
                write_string(WS, 2, 0, ShortString))
    \/ \E col \in {0, 1}, scheme \in {"http://", "internal:"} :
           CallUpTo(MaxSaveOps, "write_url", [row |-> 2, col |-> col, scheme |-> scheme],
                    write_url(WS, 2, col, Url(scheme, "short", 10, 0, FALSE, None, FALSE)))
    \/ Save

SpecSave == Init /\ [][NextSave]_vars

\* C13: a save that follows a save with nothing in between emits what the
\* first one did: the same sheet XML, the same relationships with the same
\* ids, and the same drawing entries.
C13_SaveIsIdempotent ==
    [][(last.op = "save" /\ last'.op = "save" /\ last'.res = "Ok") => last'.out = last.out]_vars

\* ------------------------------------------------------------------------
\* Shared strings: string writes, some onto a cell written before, and saves.
\* ------------------------------------------------------------------------
Neptune == Str(<<"neptune">>, 7)
Mars == Str(<<"mars">>, 4)

NextSst ==
    \/ \E row \in {0, 1, 2}, string \in {Neptune, Mars} :
           CallUpTo(MaxSaveOps, "write_string",
                    [row |-> row, col |-> 0, string |-> string, format |-> None],
                    write_string(WS, row, 0, string))
    \/ CallUpTo(MaxSaveOps, "write_number",
                [row |-> 0, col |-> 0, number |-> Finite(1), format |-> None],
                write_number(WS, 0, 0, Finite(1)))
    \/ Save

SpecSst == Init /\ [][NextSst]_vars

\* The <sst> attributes a save of the worksheet emits.
EmittedSst(w) == save(w).out.sst

\* The cells that hold a string, and the strings they hold.
StringCells == {p \in DOMAIN table : table[p].type = "String"}
StringsHeld == {table[p].string : p \in StringCells}

\* C14: count is the total number of string write operations: each string
\* write that succeeds makes the count a save emits one more.
C14_CountIsStringWrites ==
    [][(last'.op = "write_string" /\ last'.res = "Ok")
          => EmittedSst(WS').count = EmittedSst(WS).count + 1]_vars

\* C14, stated of the cells: in the <sst> element a save emits, count is
\* the number of cells that hold a string at the save and uniqueCount is
\* the number of distinct strings they hold, the <si> elements are these
\* strings, and each string cell refers to its string.
C14_CountIsStringCells ==
    (last.op = "save" /\ last.res = "Ok")
        => /\ last.out.sst.count = Cardinality(StringCells)
           /\ last.out.sst.uniqueCount = Cardinality(StringsHeld)
           /\ Len(last.out.si) = Cardinality(StringsHeld)
           /\ {last.out.si[i] : i \in 1..Len(last.out.si)} = StringsHeld
           /\ Len(last.out.sheet.shared_strings) = Cardinality(StringCells)
           /\ \A i \in 1..Len(last.out.sheet.shared_strings) :
                  LET c == SelectSeq(last.out.sheet.sheet_data,
                                     LAMBDA e : e.type = "String")[i]
                  IN  last.out.si[last.out.sheet.shared_strings[i] + 1]
                          = table[<<c.row, c.col>>].string

\* A save of neptune in two cells and mars in one: count 3, uniqueCount 2.
C14_Witness ==
    /\ last.op = "save"
    /\ last.out.sst = [count |-> 3, uniqueCount |-> 2]
    /\ last.out.si = <<Neptune, Mars>>
    /\ last.out.sheet.shared_strings = <<0, 0, 1>>

\* ------------------------------------------------------------------------
\* The tab of the worksheet: active, selected, hidden, first tab.
\* ------------------------------------------------------------------------
set_active(w, enable) ==
    LET w1 == [w EXCEPT !.active = enable]
    IN  IF w1.active THEN [w1 EXCEPT !.selected = TRUE, !.hidden = FALSE] ELSE w1

set_selected(w, enable) ==
    LET w1 == [w EXCEPT !.selected = enable]
    IN  IF w1.selected THEN [w1 EXCEPT !.hidden = FALSE] ELSE w1

set_hidden(w, enable) ==
    LET w1 == [w EXCEPT !.hidden = enable]
    IN  IF w1.hidden THEN [w1 EXCEPT !.selected = FALSE, !.active = FALSE] ELSE w1

set_first_tab(w, enable) ==
    LET w1 == [w EXCEPT !.first_sheet = enable]
    IN  IF w1.selected THEN [w1 EXCEPT !.hidden = FALSE] ELSE w1

MaxTabOps == MaxOps + 2

SetActive(enable) ==
    CallUpTo(MaxTabOps, "set_active", [enable |-> enable], Ret(set_active(WS, enable), "Ok"))

SetSelected(enable) ==
    CallUpTo(MaxTabOps, "set_selected", [enable |-> enable],
             Ret(set_selected(WS, enable), "Ok"))

SetHidden(enable) ==
    CallUpTo(MaxTabOps, "set_hidden", [enable |-> enable], Ret(set_hidden(WS, enable), "Ok"))

SetFirstTab(enable) ==
    CallUpTo(MaxTabOps, "set_first_tab", [enable |-> enable],
             Ret(set_first_tab(WS, enable), "Ok"))

NextTab ==
    \E enable \in BOOLEAN :
        \/ SetActive(enable)
        \/ SetSelected(enable)
        \/ SetHidden(enable)
        \/ SetFirstTab(enable)

SpecTab == Init /\ [][NextTab]_vars

\* C15: after any calls of set_active, set_selected, set_hidden and
\* set_first_tab, a worksheet that is active is selected and not hidden.
C15_ActiveIsSelectedAndVisible == active => (selected /\ ~hidden)

\* ------------------------------------------------------------------------
\* Blank cells, with and without a format, in formatted rows and columns.
\* ------------------------------------------------------------------------
NextBlank ==
    \E row \in XfRows, col \in XfCols :
        \/ \E format \in {DefaultFormat, Bold} : WriteBlank(row, col, format)
        \/ WriteNumber(row, col, Finite(1))
        \/ SetRowFormat(row, Italic)
        \/ SetColumnFormat(col, Bold)

SpecBlank == Init /\ [][NextBlank]_vars

BlankCells == {p \in DOMAIN table : table[p].type = "Blank"}

\* The sheet data saved with index table g has a <c> element for the cell.
IsEmitted(g, p) ==
    \E i \in 1..Len(write_data_table(SavedWith(g))) :
        /\ write_data_table(SavedWith(g))[i].row = p[1]
        /\ write_data_table(SavedWith(g))[i].col = p[2]

\* C16: a Blank cell whose xf index is 0 is never emitted as a <c> element,
\* and a Blank cell whose xf index is greater than 0 is always emitted.
C16_BlankEmittedByOwnIndex ==
    \A g \in GlobalTables(Len(xf_formats)) :
        \A p \in BlankCells : IsEmitted(g, p) <=> table[p].xf_index > 0

\* C16, stated of the index written: a Blank cell is emitted as a <c>
\* element exactly when the style index resolved for it, its own, else its
\* row's, else its column's, is greater than 0; so a Blank cell whose own
\* xf index is greater than 0 is always emitted.
C16_BlankEmittedByResolvedIndex ==
    \A g \in GlobalTables(Len(xf_formats)) :
        \A p \in BlankCells :
            /\ IsEmitted(g, p) <=> ResolveLocal(p) > 0
            /\ table[p].xf_index > 0 => IsEmitted(g, p)

\* Two Blank cells without a format of their own: one in a formatted row,
\* emitted, and one with no format at all, not emitted.
C16_Witness ==
    \E p, q \in BlankCells :
        /\ table[p].xf_index = 0
        /\ table[q].xf_index = 0
        /\ ResolveLocal(p) > 0
        /\ ResolveLocal(q) = 0
        /\ \A g \in GlobalTables(Len(xf_formats)) : IsEmitted(g, p) /\ ~IsEmitted(g, q)

\* ------------------------------------------------------------------------
\* Page breaks.
\* ------------------------------------------------------------------------
\* The most page breaks process_pagebreaks lets through.
MAX_PAGEBREAKS == 1023

\* process_pagebreaks keeping the 0 row/col.
process_pagebreaks_keeps_zero(breaks) ==
    LET sorted == SortedSeq({breaks[i] : i \in 1..Len(breaks)})
    IN  IF Len(sorted) = 0
        THEN [res |-> "Panic", breaks |-> <<>>]
        ELSE IF Len(sorted) > MAX_PAGEBREAKS
        THEN [res |-> "ParameterError", breaks |-> <<>>]
        ELSE [res |-> "Ok", breaks |-> sorted]

\* The sorted breaks without duplicates and without 0; `breaks[0]` panics
\* on an empty Vec.
process_pagebreaks(breaks) ==
    LET sorted == SortedSeq({breaks[i] : i \in 1..Len(breaks)})
        no_zero == IF sorted[1] = 0 THEN Tail(sorted) ELSE sorted
    IN  IF Len(sorted) = 0
        THEN [res |-> "Panic", breaks |-> <<>>]
        ELSE IF Len(no_zero) > MAX_PAGEBREAKS
        THEN [res |-> "ParameterError", breaks |-> <<>>]
        ELSE [res |-> "Ok", breaks |-> no_zero]

\* `breaks.last().unwrap()` panics when 0 was the only break.
set_page_breaks(w, breaks) ==
    LET processed == process_pagebreaks(breaks)
    IN  IF Len(breaks) = 0
        THEN Ret(w, "Ok")
        ELSE IF processed.res # "Ok"
        THEN Ret(w, processed.res)
        ELSE IF Len(processed.breaks) = 0
        THEN Ret(w, "Panic")
        ELSE IF processed.breaks[Len(processed.breaks)] >= ROW_MAX
        THEN Ret(w, "RowColumnLimitError")
        ELSE Ret([w EXCEPT !.horizontal_breaks = processed.breaks], "Ok")

set_vertical_page_breaks(w, breaks) ==
    LET processed == process_pagebreaks(breaks)
    IN  IF Len(breaks) = 0
        THEN Ret(w, "Ok")
        ELSE IF processed.res # "Ok"
        THEN Ret(w, processed.res)
        ELSE IF Len(processed.breaks) = 0
        THEN Ret(w, "Panic")
        ELSE IF processed.breaks[Len(processed.breaks)] >= COL_MAX
        THEN Ret(w, "RowColumnLimitError")
        ELSE Ret([w EXCEPT !.vertical_breaks = processed.breaks], "Ok")

SetPageBreaks(breaks) ==
    LET r == set_page_breaks(WS, breaks)
    IN  Call("set_page_breaks", [breaks |-> breaks], r)

SetVerticalPageBreaks(breaks) ==
    LET r == set_vertical_page_breaks(WS, breaks)
    IN  Call("set_vertical_page_breaks", [breaks |-> breaks], r)

\* Short lists: empty, 0 alone, unsorted with a duplicate, with 0, and one
\* at the limit of the rows and of the columns.
ShortBreaks == {<<>>, <<0>>, <<3, 1, 3>>, <<2, 0>>, <<COL_MAX>>, <<ROW_MAX>>}

\* Long lists: 1,024 breaks, and 1,023 breaks and 0.
LongBreaks == {[i \in 1..(MAX_PAGEBREAKS + 1) |-> i], [i \in 1..(MAX_PAGEBREAKS + 1) |-> i - 1]}

\* The long lists are passed in the first two calls.
NextBreaks ==
    \/ \E breaks \in ShortBreaks : SetPageBreaks(breaks)
    \/ \E breaks \in ShortBreaks : SetVerticalPageBreaks(breaks)
    \/ \E breaks \in LongBreaks : nops < 2 /\ SetPageBreaks(breaks)
    \/ \E breaks \in LongBreaks : nops < 2 /\ SetVerticalPageBreaks(breaks)

SpecBreaks == Init /\ [][NextBreaks]_vars

\* The list of the caller without duplicates and 0, in ascending order.
Normalised(breaks) == SortedSeq({breaks[i] : i \in 1..Len(breaks)} \ {0})

IsBreaksCall == last.op \in {"set_page_breaks", "set_vertical_page_breaks"}

\* The stored list the last call is about.
StoredBreaks == IF last.op = "set_page_breaks" THEN horizontal_breaks ELSE vertical_breaks

\* C17: after a successful set_page_breaks or set_vertical_page_breaks the
\* stored list is the list of the caller without duplicates and 0, sorted
\* ascending; a list of more than 1,023 entries once normalised returns
\* ParameterError and leaves the stored breaks unchanged.
C17_StoredBreaksAreNormalised ==
    [][(last'.op \in {"set_page_breaks", "set_vertical_page_breaks"})
          => /\ last'.res = "Ok"
                 => IF last'.op = "set_page_breaks"
                    THEN horizontal_breaks' = Normalised(last'.args.breaks)
                    ELSE vertical_breaks' = Normalised(last'.args.breaks)
             /\ Len(Normalised(last'.args.breaks)) > MAX_PAGEBREAKS
                 => /\ last'.res = "ParameterError"
                    /\ horizontal_breaks' = horizontal_breaks
                    /\ vertical_breaks' = vertical_breaks]_vars

\* C17, for a list that is not empty: a successful call stores the list
\* of the caller without duplicates and 0, sorted ascending, and changes
\* nothing but that list; a successful call with an empty list changes
\* nothing; a list of more than 1,023 entries once normalised returns
\* ParameterError, and a call that fails leaves the stored breaks unchanged.
C17_StoredBreaksOfNonEmptyList ==
    [][(last'.op \in {"set_page_breaks", "set_vertical_page_breaks"})
          => /\ (last'.res = "Ok" /\ last'.args.breaks # <<>>)
                 => /\ last'.op = "set_page_breaks"
                        => /\ horizontal_breaks' = Normalised(last'.args.breaks)
                           /\ vertical_breaks' = vertical_breaks
                    /\ last'.op = "set_vertical_page_breaks"
                        => /\ vertical_breaks' = Normalised(last'.args.breaks)
                           /\ horizontal_breaks' = horizontal_breaks
             /\ (last'.res # "Ok" \/ last'.args.breaks = <<>>)
                 => /\ horizontal_breaks' = horizontal_breaks
                    /\ vertical_breaks' = vertical_breaks
             /\ Len(Normalised(last'.args.breaks)) > MAX_PAGEBREAKS
                 => last'.res = "ParameterError"]_vars

\* Breaks are stored, and a list of 1,024 breaks is then refused.
C17_Witness ==
    /\ last.op = "set_page_breaks"
    /\ last.res = "ParameterError"
    /\ horizontal_breaks = <<1, 3>>

\* ------------------------------------------------------------------------
\* Autofit.
\* ------------------------------------------------------------------------
\* The characters of number.to_string(), for a whole number.
RECURSIVE Digits(_)
Digits(n) == IF n < 0 THEN 1 + Digits(-n) ELSE IF n < 10 THEN 1 ELSE 1 + Digits(n \div 10)

\* The width of a string in pixels: the sum of the widths of its
\* characters, each 7 pixels wide as the digits are.
pixel_width(string) == 7 * string.chars

\* The width of a number of pixels in hundredths of a character, rounded
\* up, so that it is greater than a width in whole hundredths exactly when
\* the f64 of the code is.
pixels_to_width(pixels) ==
    IF pixels < 12
    THEN (pixels * 100 + 11) \div 12
    ELSE ((pixels - 5) * 100 + 6) \div 7

\* The pixel width autofit takes for a cell.
CellPixelWidth(cell) ==
    CASE cell.type = "String" -> pixel_width(cell.string)
      [] cell.type = "Number" -> 7 * Digits(cell.number.val)
      [] cell.type = "Boolean" -> IF cell.boolean THEN 31 ELSE 36
      [] cell.type \in {"Formula", "ArrayFormula"} ->
             IF cell.result \in {"0", ""} THEN 0 ELSE pixel_width(Str(<<cell.result>>, 1))
      [] cell.type = "DateTime" -> 68
      [] OTHER -> 0

\* max_widths of autofit: the widest cell of the column, where one has a
\* width above 0.
MaxWidths(w) ==
    LET cells == {p \in DOMAIN w.table :
                     /\ w.dimensions.first_row <= p[1] /\ p[1] <= w.dimensions.last_row
                     /\ w.dimensions.first_col <= p[2] /\ p[2] <= w.dimensions.last_col
                     /\ CellPixelWidth(w.table[p]) > 0}
    IN  [col \in {p[2] : p \in cells} |->
            CHOOSE pixels \in {CellPixelWidth(w.table[p]) : p \in {q \in cells : q[2] = col}} :
                \A p \in {q \in cells : q[2] = col} : CellPixelWidth(w.table[p]) <= pixels]

\* The second loop of autofit, from the i-th column on.
RECURSIVE store_autofit_widths(_, _, _, _)
store_autofit_widths(w, max_widths, cols, i) ==
    IF i > Len(cols)
    THEN w
    ELSE store_autofit_widths(
             store_column_width(w, cols[i], pixels_to_width(max_widths[cols[i]] + 7), TRUE),
             max_widths, cols, i + 1)

autofit(w) ==
    store_autofit_widths(w, MaxWidths(w), SortedSeq(DOMAIN MaxWidths(w)), 1)

Autofit == Call("autofit", <<>>, Ret(autofit(WS), "Ok"))

\* Caller widths of 0, 5, 20 and 300 characters; numbers of one and of
\* seven digits in column 0, a string of 20 characters in column 1.
AutofitWidths == {0, 500, 2000, 30000}

NextAutofit ==
    \/ \E col \in {0, 1}, width \in AutofitWidths : SetColumnWidth(col, width)
    \/ \E row \in {0, 1}, number \in {1, 1234567} : WriteNumber(row, 0, Finite(number))
    \/ WriteString(0, 1, Str(<<"12345678901234567890">>, 20))
    \/ Autofit

SpecAutofit == Init /\ [][NextAutofit]_vars

\* What autofit leaves in the columns: a width set by the caller is
\* replaced by the autofit width only when that is larger, any other
\* width is replaced, and a column without a cell to fit is left alone.
AutofitStores ==
    last'.op = "autofit"
        => /\ DOMAIN changed_cols' = DOMAIN changed_cols \cup DOMAIN MaxWidths(WS)
           /\ \A col \in DOMAIN changed_cols \ DOMAIN MaxWidths(WS) :
                  changed_cols'[col] = changed_cols[col]
           /\ \A col \in DOMAIN MaxWidths(WS) :
                  LET fitted == pixels_to_width(MaxWidths(WS)[col] + 7)
                      by_caller == col \in DOMAIN changed_cols /\ ~changed_cols[col].autofit
                  IN  IF by_caller /\ fitted <= changed_cols[col].width
                      THEN changed_cols'[col] = changed_cols[col]
                      ELSE /\ changed_cols'[col].width = fitted
                           /\ changed_cols'[col].autofit

\* The width set_column_width is to store: the width of the caller, 255
\* characters at most.
CallerWidth(width) == IF width > 25500 THEN 25500 ELSE width

MergedAfter(b, a) ==
    LET first == merge_range(NewWorksheet, b.first_row, b.first_col, b.last_row, b.last_col,
                             ShortString, Bold)
    IN  merge_range(first.ws, a.first_row, a.first_col, a.last_row, a.last_col,
                    ShortString, Bold).res

\* The second call on a new worksheet has failed with the overlap error:
\* the range of the first call is the one range stored.
SecondMergeOverlaps ==
    /\ nops = 2
    /\ last.op = "merge_range"
    /\ last.res = "MergeRangeOverlaps"

\* C20: for two ranges A and B on a new worksheet, if merge_range(A) and
\* then merge_range(B) makes the second call fail with the overlap error,
\* then merge_range(B) and then merge_range(A) makes the second call fail
\* with the overlap error as well.
C20_OverlapIsSymmetric ==
    SecondMergeOverlaps
        => /\ Len(merged_ranges) = 1
           /\ MergedAfter(merged_ranges[1], last.args.range) = "MergeRangeOverlaps"
           /\ MergedAfter(last.args.range, merged_ranges[1]) = "MergeRangeOverlaps"

\* A then B has failed for two ranges that differ and of which B does not
\* hold the first cell of A.
C20_Witness ==
    /\ SecondMergeOverlaps
    /\ merged_ranges[1] # last.args.range
    /\ <<merged_ranges[1].first_row, merged_ranges[1].first_col>> \notin CellsOf(last.args.range)

\* ------------------------------------------------------------------------
\* Dates: write_date and the Excel serial date.
\* ------------------------------------------------------------------------
\* A chrono::NaiveDate.
Date(year, month, day) == [year |-> year, month |-> month, day |-> day]

\* The year of the epoch, 1899-12-31.
EpochYear == 1899
Epoch == Date(EpochYear, 12, 31)

\* The proleptic Gregorian calendar of chrono.
is_leap_year(year) == (year % 4 = 0 /\ year % 100 # 0) \/ year % 400 = 0

days_in_month(year, month) ==
    IF month = 2 THEN (IF is_leap_year(year) THEN 29 ELSE 28)
    ELSE IF month \in {4, 6, 9, 11} THEN 30
    ELSE 31

RECURSIVE days_before_month(_, _)
days_before_month(year, month) ==
    IF month = 1 THEN 0
    ELSE days_before_month(year, month - 1) + days_in_month(year, month - 1)

\* The day number of a date, January 1 of year 1 being day 1.
num_days_from_ce(date) ==
    LET y == date.year - 1
    IN  365 * y + (y \div 4) - (y \div 100) + (y \div 400)
            + days_before_month(date.year, date.month) + date.day

\* `(*date - epoch).num_days()`.
num_days_since(date, epoch) == num_days_from_ce(date) - num_days_from_ce(epoch)

\* The conversion without the day Excel adds for 1900-02-29.
date_to_excel_no_leap_day(date) == Finite(num_days_since(date, Epoch))

date_to_excel(date) ==
    LET excel_date == num_days_since(date, Epoch)
    IN  IF Epoch.year = EpochYear /\ excel_date > 59
        THEN Finite(excel_date + 1)
        ELSE Finite(excel_date)

write_date(w, row, col, date, format) ==
    store_datetime(w, row, col, date_to_excel(date), Some(format))

\* The last month of 1900 a date is written from.
MaxMonth == 3

\* The dates written: those of December 1899 and of the first months of
\* 1900, the days before and after the epoch and around 1900-02-29.
Dates ==
    {Date(EpochYear, 12, day) : day \in 1..31}
        \cup UNION {{Date(EpochYear + 1, month, day) : day \in 1..days_in_month(EpochYear + 1, month)} :
                    month \in 1..MaxMonth}

\* write_date on a cell of row 0 that holds nothing yet.
WriteDate(col, date) ==
    /\ <<0, col>> \notin DOMAIN table
    /\ Call("write_date", [row |-> 0, col |-> col, date |-> date, format |-> Some(Bold)],
            write_date(WS, 0, col, date, Bold))

NextDate == \E col \in 0..1, date \in Dates : WriteDate(col, date)

SpecDate == Init /\ [][NextDate]_vars

\* d1 is an earlier day than d2.
Before(d1, d2) ==
    \/ d1.year < d2.year
    \/ d1.year = d2.year /\ d1.month < d2.month
    \/ d1.year = d2.year /\ d1.month = d2.month /\ d1.day < d2.day

\* The number of days from 1899-12-31 to the date, counted day by day; the
\* days written are consecutive.
DaysSinceEpoch(date) ==
    IF Before(date, Epoch)
    THEN 0 - Cardinality({d \in Dates : (d = date \/ Before(date, d)) /\ Before(d, Epoch)})
    ELSE Cardinality({d \in Dates : Before(Epoch, d) /\ (d = date \/ Before(d, date))})

\* The serial date the last write_date call has stored.
StoredSerial(call, cells) == cells[<<call.args.row, call.args.col>>].number.val

\* C21: the date serial is the number of days since 1899-12-31, plus 1
\* whenever that number is greater than 59: 1900-02-28 converts to 59,
\* 1900-03-01 converts to 61, no date converts to 60, and the conversion is
\* strictly increasing in the date.
C21_DateSerialSkipsLeapDay ==
    [][last'.op = "write_date"
          => LET days == DaysSinceEpoch(last'.args.date)
                 serial == StoredSerial(last', table')
             IN  /\ last'.res = "Ok"
                 /\ table'[<<0, last'.args.col>>].number.kind = "finite"
                 /\ serial = days + (IF days > 59 THEN 1 ELSE 0)
                 /\ last'.args.date = Date(1900, 2, 28) => serial = 59
                 /\ last'.args.date = Date(1900, 3, 1) => serial = 61
                 /\ serial # 60
                 /\ last.op = "write_date"
                        => (Before(last.args.date, last'.args.date)
                               <=> StoredSerial(last, table) < serial)]_vars

\* 1900-02-28 and then 1900-03-01 have been written: the serials 59 and 61.
C21_Witness ==
    /\ nops = 2
    /\ last.op = "write_date"
    /\ last.args.date = Date(1900, 3, 1)
    /\ <<0, 0>> \in DOMAIN table
    /\ <<0, 1>> \in DOMAIN table
    /\ table[<<0, 0>>].number = Finite(59)
    /\ table[<<0, 1>>].number = Finite(61)

\* ------------------------------------------------------------------------
\* SpecFormats: the local format indices of a worksheet.
\* ------------------------------------------------------------------------
NextFormats ==
    \E format \in {DefaultFormat, Bold, Italic, HyperlinkFormat} :
        \/ \E row \in {0, ROW_MAX}, col \in {0, 1} :
               WriteNumberWithFormat(row, col, Finite(1), format)
        \/ WriteBlank(0, 0, format)
        \/ WriteStringWithFormat(0, 1, ShortString, format)
        \/ SetRowFormat(0, format)
        \/ SetColumnFormat(0, format)

SpecFormats == Init /\ [][NextFormats]_vars

\* Index 0 is the default format, and every format of the vector has one
\* index, its place in the vector.
FormatTableIsConsistent(formats, indices) ==
    /\ Len(formats) >= 1
    /\ formats[1] = DefaultFormat
    /\ DOMAIN indices = {formats[i].key : i \in 1..Len(formats)}
    /\ \A i \in 1..Len(formats) : indices[formats[i].key] = i - 1

\* The xf index the last call has stored for its format.
StoredXfIndex(call, w) ==
    IF call.op = "set_row_format" THEN w.changed_rows[call.args.row].xf_index
    ELSE IF call.op = "set_column_format" THEN w.changed_cols[call.args.col].xf_index
    ELSE w.table[<<call.args.row, call.args.col>>].xf_index

\* C22: after any sequence of writes on a worksheet, local format index 0
\* denotes the default format, every distinct format used has exactly one
\* local index, new indices are handed out consecutively (1, 2, ...) in
\* order of first use, and an index once assigned to a format never changes.
C22_FormatIndicesAreStable ==
    [][/\ FormatTableIsConsistent(xf_formats, xf_indices)
       /\ FormatTableIsConsistent(xf_formats', xf_indices')
       /\ SubSeq(xf_formats', 1, Len(xf_formats)) = xf_formats
       /\ \A key \in DOMAIN xf_indices : xf_indices'[key] = xf_indices[key]
       /\ last'.res = "Ok"
              => LET format == last'.args.format.val
                 IN  /\ format.key \in DOMAIN xf_indices'
                     /\ StoredXfIndex(last', WS') = xf_indices'[format.key]
                     /\ xf_formats'[xf_indices'[format.key] + 1] = format
                     /\ format.key \notin DOMAIN xf_indices
                            => /\ xf_indices'[format.key] = Len(xf_formats)
                               /\ Len(xf_formats') = Len(xf_formats) + 1
                     /\ format.key \in DOMAIN xf_indices => xf_formats' = xf_formats
       /\ last'.res # "Ok" => xf_formats' = xf_formats]_vars

\* Italic and then bold were used first, and the last call has used italic
\* again: it is still index 1, bold index 2.
C22_Witness ==
    /\ nops = 3
    /\ last.res = "Ok"
    /\ last.args.format = Some(Italic)
    /\ xf_formats = <<DefaultFormat, Italic, Bold>>
    /\ xf_indices[Italic.key] = 1
    /\ xf_indices[Bold.key] = 2
    /\ xf_indices[DefaultFormat.key] = 0

\* ------------------------------------------------------------------------
\* SpecRefIds: the r:id references of one sheet XML, element by element.
\* The hyperlinks of the BTreeMap are taken a run at a time: the links of
\* one type in consecutive cells, a whole row of them at most.
\* ------------------------------------------------------------------------
\* Hyperlink::increment_ref_id on a u16 that wraps.
increment_ref_id(link_type, ref_id) ==
    IF link_type \in {"Url", "File"} THEN (ref_id + 1) % U16 ELSE ref_id

\* increment_ref_id for each of n links of one type, one after the other.
increment_ref_id_run(link_type, ref_id, n) ==
    IF link_type \in {"Url", "File"} THEN (ref_id + n) % U16 ELSE ref_id

\* One of these `ref_id + 1` does not fit a u16.
increment_ref_id_overflows(link_type, ref_id, n) ==
    link_type \in {"Url", "File"} /\ ref_id + n > U16 - 1

\* The runs of r:id attributes of the sheet XML: `first` is the id of the
\* first one, the next ones follow it by one each, as a u16.
RefIds(element, link_type, first, count) ==
    [element |-> element, link_type |-> link_type, first |-> first, count |-> count]

\* A step of assemble_xml_file: the worksheet it leaves, where it is and
\* what it has written.
Written(w, element, ref_id, ids) ==
    /\ Commit(w)
    /\ writing' = element
    /\ loop_ref_id' = ref_id
    /\ r_ids' = ids
    /\ UNCHANGED <<last, nops, fvars>>

\* `if !self.hyperlinks.is_empty() { self.write_hyperlinks(); }`: the start
\* of write_hyperlinks, or no hyperlinks at all.
WriteHyperlinksStart ==
    /\ writing = "worksheet"
    /\ \/ Written(WS, "hyperlinks", 1, r_ids)
       \/ Written(WS, "drawing", loop_ref_id, r_ids)

\* Number of runs of hyperlinks in a sheet.
MaxRuns == 4

\* The turns of the loop of write_hyperlinks for a run of n links. Where
\* an addition overflows, the checked build panics and the other wraps.
WriteHyperlinkRun(link_type, n) ==
    /\ writing = "hyperlinks"
    /\ Len(r_ids) < MaxRuns
    /\ LET ids == IF link_type = "Internal"
                  THEN RefIds("hyperlink", link_type, 0, 0)
                  ELSE RefIds("hyperlink", link_type, loop_ref_id, n)
       IN  \/ Written(WS, "hyperlinks", increment_ref_id_run(link_type, loop_ref_id, n),
                      Append(r_ids, ids))
           \/ /\ increment_ref_id_overflows(link_type, loop_ref_id, n)
              /\ Written(WS, "Panic", loop_ref_id, r_ids)

\* `self.rel_count = ref_id - 1;` at the end of write_hyperlinks.
WriteHyperlinksEnd ==
    /\ writing = "hyperlinks"
    /\ r_ids # <<>>
    /\ Written([WS EXCEPT !.rel_count = (loop_ref_id - 1) % U16], "drawing",
               loop_ref_id, r_ids)

\* `if !self.drawing.drawings.is_empty() { self.write_drawing(); }`
WriteDrawing ==
    /\ writing = "drawing"
    /\ \/ Written(write_drawing(WS).ws, "legacyDrawingHF", loop_ref_id,
                  Append(r_ids, RefIds("drawing", "", write_drawing(WS).xml, 1)))
       \/ /\ rel_count + 1 > U16 - 1
          /\ Written(WS, "Panic", loop_ref_id, r_ids)
       \/ Written(WS, "legacyDrawingHF", loop_ref_id, r_ids)

\* `if self.has_header_footer_images() { self.write_legacy_drawing_hf(); }`
WriteLegacyDrawingHf ==
    /\ writing = "legacyDrawingHF"
    /\ \/ Written(write_legacy_drawing_hf(WS).ws, "end", loop_ref_id,
                  Append(r_ids, RefIds("legacyDrawingHF", "", write_legacy_drawing_hf(WS).xml, 1)))
       \/ /\ rel_count + 1 > U16 - 1
          /\ Written(WS, "Panic", loop_ref_id, r_ids)
       \/ Written(WS, "end", loop_ref_id, r_ids)

NextRefIds ==
    \/ WriteHyperlinksStart
    \/ \E link_type \in {"Url", "File", "Internal"}, n \in {1, COL_MAX} :
           WriteHyperlinkRun(link_type, n)
    \/ WriteHyperlinksEnd
    \/ WriteDrawing
    \/ WriteLegacyDrawingHf

SpecRefIds == Init /\ [][NextRefIds]_vars

\* The number of r:id attributes written before the i-th run.
RECURSIVE RefIdsBefore(_)
RefIdsBefore(i) == IF i <= 1 THEN 0 ELSE RefIdsBefore(i - 1) + r_ids[i - 1].count

\* The id of the m-th reference of a run, from 0.
RefIdOf(run, m) == (run.first + m) % U16

\* C23: within one worksheet all relationship ids come from a single
\* counter that starts at 1: external (URL and file) hyperlinks receive
\* rId1..rIdk in (row, column) order, internal links consume no id, and the
\* drawing reference and then the header/footer legacy-drawing reference
\* receive the next ids after the hyperlinks, so no two references in a
\* sheet share an rId.
C23_RefIdsCountUpFromOne ==
    \A i \in 1..Len(r_ids) :
        r_ids[i].count > 0
            => /\ RefIdOf(r_ids[i], 0) = RefIdsBefore(i) + 1
               /\ RefIdOf(r_ids[i], r_ids[i].count - 1) = RefIdsBefore(i) + r_ids[i].count

\* ------------------------------------------------------------------------
\* Rejected merge_range calls.
\* ------------------------------------------------------------------------
\* The errors merge_range returns for its range.
MergeErrors ==
    {"RowColumnLimitError", "RowColumnOrderError", "MergeRangeSingleCell",
     "MergeRangeOverlaps"}

\* C24: a merge_range call that returns an error (row/column limit, order,
\* single-cell or overlap) leaves the worksheet unchanged: the contents of
\* every cell (including the cells of previously merged ranges), the
\* tracked dimensions and the merged-cell index are the same as before the
\* call.
C24_RejectedMergeChangesNothing ==
    [][(last'.op = "merge_range" /\ last'.res \in MergeErrors)
          => /\ table' = table
             /\ dimensions' = dimensions
             /\ merged_cells' = merged_cells
             /\ merged_ranges' = merged_ranges]_vars

\* C25: a merge_range call with an in-bounds, correctly ordered, multi-cell
\* range that shares no cell with any previously accepted merge returns
\* Ok, no matter how many earlier merge_range calls were rejected; it never
\* panics and never reports an overlap with a range that was not accepted.
C25_DisjointMergeIsAccepted ==
    [][(/\ last'.op = "merge_range"
        /\ WellFormedMerge(last'.args.range)
        /\ \A i \in DOMAIN merged_ranges : ~SharesCell(last'.args.range, merged_ranges[i]))
       => last'.res = "Ok"]_vars

\* ------------------------------------------------------------------------
\* Rejected cell writes.
\* ------------------------------------------------------------------------
\* The errors of the cell writes.
WriteErrors ==
    {"RowColumnLimitError", "RowColumnOrderError", "MaxStringLengthExceeded",
     "MaxUrlLengthExceeded"}

\* C26: a cell write that returns an error (RowColumnLimitError,
\* RowColumnOrderError, MaxStringLengthExceeded or MaxUrlLengthExceeded)
\* leaves the cell store and the tracked worksheet dimensions exactly as
\* they were before the call.
C26_RejectedWriteChangesNothing ==
    [][(last'.op \in {"write_number", "write_string"} /\ last'.res \in WriteErrors)
          => /\ table' = table
             /\ dimensions' = dimensions]_vars

\* ------------------------------------------------------------------------
\* The format of a formula cell.
\* ------------------------------------------------------------------------
\* C27: the format passed to a formula write becomes the format of the
\* stored cell in every case, including when the formula is promoted to a
\* single-cell dynamic array formula.
C27_FormulaKeepsFormat ==
    (last.op = "write_formula" /\ last.res = "Ok" /\ last.args.format.some)
        => /\ HasCell(last.args)
           /\ xf_formats[CellAt(last.args).xf_index + 1] = last.args.format.val

\* ------------------------------------------------------------------------
\* Page breaks: the lists that are accepted.
\* ------------------------------------------------------------------------
\* C28: set_page_breaks and set_vertical_page_breaks return Ok or Err for
\* every input slice and never panic; in particular a list whose only
\* element is 0 is accepted and results in no page breaks.
C28_PageBreaksNeverPanic ==
    IsBreaksCall
        => /\ last.res # "Panic"
           /\ last.args.breaks = <<0>> => (last.res = "Ok" /\ StoredBreaks = <<>>)

\* ------------------------------------------------------------------------
\* SpecEmu: images anchored in the first and in the last rows and columns
\* of the sheet, for the absolute offsets of their drawings in EMUs.
\* ------------------------------------------------------------------------
NextEmu ==
    \/ \E row \in {0, 2, ROW_MAX - 1}, col \in {0, 2, COL_MAX - 1}, image \in Images :
           InsertImage(row, col, image)
    \/ \E width \in {50, 2000} : SetColumnWidth(0, width)
    \/ \E height \in {0, 30} : SetRowHeight(0, height)
    \/ SetRowHidden(1)

SpecEmu == Init /\ [][NextEmu]_vars

\* C29: for an object anchored at any cell within the worksheet limits, the
\* absolute EMU offsets stored for its drawing equal 9,525 times its
\* absolute pixel offsets, with no integer overflow or wrap-around.
C29_AbsoluteEmusAreExact ==
    \A cell \in DOMAIN images :
        LET pixels == position_object_pixels(WS, cell[1], cell[2], images[cell])
            emus == position_object_emus(WS, cell[1], cell[2], images[cell])
        IN  /\ ~position_object_emus_overflows(WS, cell[1], cell[2], images[cell])
            /\ emus.col_absolute = Product(pixels.col_absolute, 9525)
            /\ emus.row_absolute = Product(pixels.row_absolute, 9525)

\* ------------------------------------------------------------------------
\* The filter conditions and the autofilter range.
\* ------------------------------------------------------------------------
\* Every stored condition is on a column of the range of the defined name.
ConditionsWithinRange(name, conditions) ==
    \A col \in DOMAIN conditions :
        /\ name.in_use
        /\ name.first_col <= col
        /\ col <= name.last_col

\* C30: after any sequence of autofilter and filter_column calls, every
\* stored filter condition belongs to a column inside the current
\* autofilter range: setting a new autofilter range discards all conditions
\* stored for the previous range.
C30_ConditionsAreOfCurrentRange ==
    [][/\ ConditionsWithinRange(autofilter_defined_name, filter_conditions)
       /\ ConditionsWithinRange(autofilter_defined_name', filter_conditions')
       /\ (last'.op = "autofilter" /\ last'.res = "Ok")
              => /\ filter_conditions' = <<>>
                 /\ autofilter_defined_name'.first_col = last'.args.first_col
                 /\ autofilter_defined_name'.last_col = last'.args.last_col
       /\ (last'.op = "autofilter" /\ last'.res # "Ok")
              => /\ filter_conditions' = filter_conditions
                 /\ autofilter_defined_name' = autofilter_defined_name]_vars

\* The third call has set a range of column 1 alone, and no condition is
\* stored.
C30_Witness ==
    /\ nops = 3
    /\ last.op = "autofilter"
    /\ last.res = "Ok"
    /\ autofilter_defined_name.first_col = 1
    /\ autofilter_defined_name.last_col = 1
    /\ filter_conditions = <<>>

====
